---------------------------- MODULE Spec2Model ----------------------------
(***************************************************************************)
(* LearnFlow-AI backend: the LLM-response pipeline (app/services/          *)
(* ai_service.py, app/utils/ai_helpers.py) and the Pinecone chat memory    *)
(* (app/utils/pinecone_service.py), as one state machine.                  *)
(*                                                                         *)
(* Python strings are sequences of one-character strings, so that          *)
(* `kw in s`, s.lower(), s.strip() and s.split() are computed.  None is    *)
(* the one-element sequence <<"None">>, which is no string.  A dict is a   *)
(* function from key strings to values; dict.get and `k in d` are Get and  *)
(* Has.  Every operation is one action; the external collaborators (LLM,   *)
(* web search, embedding endpoint, Pinecone) answer or fail as the action's*)
(* inputs say.  `calls` lists the collaborator calls the last operation    *)
(* made, `ret` is what it returned and `fault` the exception it let out.   *)
(***************************************************************************)
EXTENDS Integers, Sequences, FiniteSets, TLC

VARIABLES
    env,        \* process configuration, fixed at import time
    svc,        \* the PineconeService singleton (_pinecone_instance)
    vectors,    \* the vectors of the Pinecone index
    nextId,     \* number of vector ids generated so far
    op,         \* the last operation that ran
    req,        \* its arguments and the collaborators' answers
    ret,        \* its return value
    fault,      \* the exception it propagated to its caller, or "none"
    calls,      \* the collaborator calls it made, in order
    threads     \* the store_chat_pair calls in progress, one per thread

vars == <<env, svc, vectors, nextId, op, req, ret, fault, calls, threads>>

-----------------------------------------------------------------------------
(* Bounds of the model *)

\* at most this many store_chat_pair upserts in one behaviour
MaxTurns == 2

\* this many threads call store_chat_pair at the same time
NumThreads == 2

\* calculate_understanding_update is applied at most this many times to one map
MaxUpdates == 2

-----------------------------------------------------------------------------
(* Python values *)

None == <<"None">>

Falsy(x) == x = None \/ x = <<>>

Has(d, k) == k \in DOMAIN d

Get(d, k, default) == IF k \in DOMAIN d THEN d[k] ELSE default

EmptyDict == <<>>

\* an optional value that is no string: NONE, or Some(x)
NONE == <<>>

Some(x) == <<x>>

SEARCH_TEMPORAL ==
    { <<"c","u","r","r","e","n","t">>   \* 'current'
    , <<"r","e","c","e","n","t">>   \* 'recent'
    , <<"l","a","t","e","s","t">>   \* 'latest'
    , <<"2","0","2","4">>   \* '2024'
    , <<"2","0","2","5">>   \* '2025'
    }

SEARCH_HOWTO ==
    { <<"t","u","t","o","r","i","a","l">>   \* 'tutorial'
    , <<"h","o","w"," ","t","o">>   \* 'how to'
    , <<"g","u","i","d","e">>   \* 'guide'
    , <<"l","e","a","r","n">>   \* 'learn'
    }

SEARCH_RESOURCE ==
    { <<"t","o","o","l","s">>   \* 'tools'
    , <<"l","i","b","r","a","r","i","e","s">>   \* 'libraries'
    , <<"f","r","a","m","e","w","o","r","k","s">>   \* 'frameworks'
    , <<"r","e","s","o","u","r","c","e","s">>   \* 'resources'
    }

\* 'trend'
KW_trend == <<"t","r","e","n","d">>

\* 'current'
KW_current == <<"c","u","r","r","e","n","t">>

\* 'tool'
KW_tool == <<"t","o","o","l">>

\* 'python'
KW_python == <<"p","y","t","h","o","n">>

personal_keywords ==
    { <<"m","y"," ","n","a","m","e">>   \* 'my name'
    , <<"w","h","o"," ","a","m"," ","i">>   \* 'who am i'
    , <<"r","e","m","e","m","b","e","r"," ","m","e">>   \* 'remember me'
    , <<"i"," ","a","m"," ">>   \* 'i am '
    , <<"c","a","l","l"," ","m","e">>   \* 'call me'
    , <<"d","o"," ","y","o","u"," ","k","n","o","w">>   \* 'do you know'
    , <<"c","a","n"," ","y","o","u"," ","r","e","c","a","l","l">>   \* 'can you recall'
    , <<"h","a","v","e"," ","w","e"," ","t","a","l","k","e","d">>   \* 'have we talked'
    , <<"p","r","e","v","i","o","u","s"," ","c","o","n","v","e","r","s","a","t","i","o","n">>   \* 'previous conversation'
    , <<"b","e","f","o","r","e">>   \* 'before'
    , <<"e","a","r","l","i","e","r">>   \* 'earlier'
    , <<"l","a","s","t"," ","t","i","m","e">>   \* 'last time'
    }

code_keywords ==
    { <<"c","o","d","e">>   \* 'code'
    , <<"f","u","n","c","t","i","o","n">>   \* 'function'
    , <<"c","l","a","s","s">>   \* 'class'
    , <<"m","e","t","h","o","d">>   \* 'method'
    , <<"i","m","p","o","r","t">>   \* 'import'
    , <<"d","e","f"," ">>   \* 'def '
    , <<"j","a","v","a","s","c","r","i","p","t">>   \* 'javascript'
    , <<"p","y","t","h","o","n">>   \* 'python'
    , <<"j","a","v","a">>   \* 'java'
    , <<"c","+","+">>   \* 'c++'
    , <<"h","t","m","l">>   \* 'html'
    , <<"c","s","s">>   \* 'css'
    , <<"e","x","a","m","p","l","e">>   \* 'example'
    , <<"s","y","n","t","a","x">>   \* 'syntax'
    , <<"e","r","r","o","r">>   \* 'error'
    , <<"d","e","b","u","g">>   \* 'debug'
    , <<"f","i","x">>   \* 'fix'
    , <<"h","o","w"," ","t","o">>   \* 'how to'
    }

concept_keywords ==
    { <<"w","h","a","t"," ","i","s">>   \* 'what is'
    , <<"e","x","p","l","a","i","n">>   \* 'explain'
    , <<"d","e","f","i","n","e">>   \* 'define'
    , <<"m","e","a","n","i","n","g"," ","o","f">>   \* 'meaning of'
    , <<"u","n","d","e","r","s","t","a","n","d">>   \* 'understand'
    , <<"c","o","n","c","e","p","t">>   \* 'concept'
    , <<"t","h","e","o","r","y">>   \* 'theory'
    , <<"p","r","i","n","c","i","p","l","e">>   \* 'principle'
    , <<"b","a","s","i","c","s">>   \* 'basics'
    , <<"f","u","n","d","a","m","e","n","t","a","l","s">>   \* 'fundamentals'
    }

short_queries ==
    { <<"h","i">>   \* 'hi'
    , <<"h","e","l","l","o">>   \* 'hello'
    , <<"h","e","y">>   \* 'hey'
    , <<"g","o","o","d"," ","m","o","r","n","i","n","g">>   \* 'good morning'
    , <<"g","o","o","d"," ","a","f","t","e","r","n","o","o","n">>   \* 'good afternoon'
    , <<"g","o","o","d"," ","e","v","e","n","i","n","g">>   \* 'good evening'
    , <<"w","h","a","t","'","s"," ","u","p">>   \* "what's up"
    , <<"h","o","w"," ","a","r","e"," ","y","o","u">>   \* 'how are you'
    }

\* 'what is recursion'
M_concept == <<"w","h","a","t"," ","i","s"," ","r","e","c","u","r","s","i","o","n">>

\* 'what are the latest javascript frameworks 2024'
M_latest == <<"w","h","a","t"," ","a","r","e"," ","t","h","e"," ","l","a","t","e","s","t"," ","j","a","v","a","s","c","r","i","p","t"," ","f","r","a","m","e","w","o","r","k","s"," ","2","0","2","4">>

\* 'show me current trends'
M_trend == <<"s","h","o","w"," ","m","e"," ","c","u","r","r","e","n","t"," ","t","r","e","n","d","s">>

\* 'which tools should i use'
M_tool == <<"w","h","i","c","h"," ","t","o","o","l","s"," ","s","h","o","u","l","d"," ","i"," ","u","s","e">>

\* 'How to fix this error'
M_howto == <<"H","o","w"," ","t","o"," ","f","i","x"," ","t","h","i","s"," ","e","r","r","o","r">>

\* 'hi'
M_hi == <<"h","i">>

\* 'do you know my name'
M_personal == <<"d","o"," ","y","o","u"," ","k","n","o","w"," ","m","y"," ","n","a","m","e">>

\* 'tell me more about it'
M_plain == <<"t","e","l","l"," ","m","e"," ","m","o","r","e"," ","a","b","o","u","t"," ","i","t">>

\* 'python'
T_python == <<"p","y","t","h","o","n">>

\* 'react hooks'
T_react == <<"r","e","a","c","t"," ","h","o","o","k","s">>

UPPER == {"A","B","C","D","E","F","G","H","I","J","K","L","M","N","O","P","Q","R","S","T","U","V","W","X","Y","Z"}

LowerChar(c) ==
    CASE c = "A" -> "a"
      [] c = "B" -> "b"
      [] c = "C" -> "c"
      [] c = "D" -> "d"
      [] c = "E" -> "e"
      [] c = "F" -> "f"
      [] c = "G" -> "g"
      [] c = "H" -> "h"
      [] c = "I" -> "i"
      [] c = "J" -> "j"
      [] c = "K" -> "k"
      [] c = "L" -> "l"
      [] c = "M" -> "m"
      [] c = "N" -> "n"
      [] c = "O" -> "o"
      [] c = "P" -> "p"
      [] c = "Q" -> "q"
      [] c = "R" -> "r"
      [] c = "S" -> "s"
      [] c = "T" -> "t"
      [] c = "U" -> "u"
      [] c = "V" -> "v"
      [] c = "W" -> "w"
      [] c = "X" -> "x"
      [] c = "Y" -> "y"
      [] c = "Z" -> "z"
      [] OTHER -> c

-----------------------------------------------------------------------------
(* str methods *)

Lower(s) == [i \in DOMAIN s |-> LowerChar(s[i])]

\* `kw in s`
Contains(s, kw) ==
    \E i \in 1..(Len(s) - Len(kw) + 1) : SubSeq(s, i, i + Len(kw) - 1) = kw

AnyIn(kws, s) == \E kw \in kws : Contains(s, kw)

IsSpace(c) == c \in {" ", "\n", "\t", "\r"}

\* s.strip()
Strip(s) ==
    LET keep == {i \in DOMAIN s : ~IsSpace(s[i])}
    IN  IF keep = {} THEN <<>>
        ELSE LET lo == CHOOSE i \in keep : \A j \in keep : i <= j
                 hi == CHOOSE i \in keep : \A j \in keep : j <= i
             IN  SubSeq(s, lo, hi)

\* len(s.split()): the number of maximal runs of non-space characters
WordCount(s) ==
    Cardinality({i \in DOMAIN s : ~IsSpace(s[i]) /\ (i = 1 \/ IsSpace(s[i - 1]))})

\* str(x)
Str(x) == IF x = None THEN <<"N","o","n","e">> ELSE x

-----------------------------------------------------------------------------
(* The embedding endpoint and PineconeService.create_embedding *)

EMBED_DIM == 384

\* what HFLocalEmbeddings.embed answers: a vector of some length (0: its
\* failure value), or an exception
EmbedAnswers ==
    { [kind |-> "vec", len |-> 384], [kind |-> "vec", len |-> 0],
      [kind |-> "vec", len |-> 383], [kind |-> "vec", len |-> 385],
      [kind |-> "raise", len |-> 0] }

\* a create_embedding that returns a short vector as it came
create_embedding_unpadded(e) ==
    IF ~env.embeddings_ok THEN [len |-> EMBED_DIM, zero |-> TRUE]
    ELSE IF e.kind = "raise" THEN [len |-> EMBED_DIM, zero |-> TRUE]
    ELSE IF e.len = 0 THEN [len |-> EMBED_DIM, zero |-> TRUE]
    ELSE IF e.len > EMBED_DIM THEN [len |-> EMBED_DIM, zero |-> FALSE]
    ELSE [len |-> e.len, zero |-> FALSE]

\* the length and the all-zero flag of the vector create_embedding returns
create_embedding(e) ==
    IF ~env.embeddings_ok THEN [len |-> EMBED_DIM, zero |-> TRUE]
    ELSE IF e.kind = "raise" THEN [len |-> EMBED_DIM, zero |-> TRUE]
    ELSE IF e.len = 0 THEN [len |-> EMBED_DIM, zero |-> TRUE]
    ELSE IF e.len > EMBED_DIM THEN [len |-> EMBED_DIM, zero |-> FALSE]
    ELSE [len |-> e.len + (EMBED_DIM - e.len), zero |-> FALSE]

\* the call create_embedding makes: self.embeddings.embed, unless there is
\* no embeddings object
EmbedCalls == IF env.embeddings_ok THEN <<[ev |-> "embed"]>> ELSE <<>>

-----------------------------------------------------------------------------
(* PineconeService.__init__ and get_pinecone_service *)

\* the answers of the Pinecone client during __init__: the constructor,
\* pc.Index, pc.create_index, the second pc.Index (TRUE: no exception)
InitAnswers == [ctor : BOOLEAN, index : BOOLEAN, create : BOOLEAN, index2 : BOOLEAN]

NoService ==
    [created |-> FALSE, available |-> FALSE, index |-> FALSE,
     stage |-> "UNCONFIGURED"]

\* the instance __init__ leaves behind, with the stage it ended in
PineconeService_init(a) ==
    IF ~env.api_key \/ ~env.pinecone_pkg \/ ~env.embeddings_ok
    THEN [created |-> TRUE, available |-> FALSE, index |-> FALSE, stage |-> "DISABLED"]
    ELSE IF ~a.ctor
    THEN [created |-> TRUE, available |-> FALSE, index |-> FALSE, stage |-> "DISABLED"]
    ELSE IF a.index
    THEN [created |-> TRUE, available |-> TRUE, index |-> TRUE, stage |-> "READY"]
    ELSE IF a.create /\ a.index2
    THEN [created |-> TRUE, available |-> TRUE, index |-> TRUE, stage |-> "READY"]
    ELSE [created |-> TRUE, available |-> FALSE, index |-> FALSE, stage |-> "DISABLED"]

\* the stages __init__ goes through
InitPath(a) ==
    IF ~env.api_key \/ ~env.pinecone_pkg \/ ~env.embeddings_ok
    THEN <<"UNCONFIGURED", "DISABLED">>
    ELSE IF ~a.ctor
    THEN <<"UNCONFIGURED", "CONNECTING", "DISABLED">>
    ELSE IF a.index
    THEN <<"UNCONFIGURED", "CONNECTING", "READY">>
    ELSE IF a.create /\ a.index2
    THEN <<"UNCONFIGURED", "CONNECTING", "CREATE_INDEX", "READY">>
    ELSE <<"UNCONFIGURED", "CONNECTING", "CREATE_INDEX", "DISABLED">>

\* a get_pinecone_service that constructs again when the instance is disabled
NeedsConstruction_retry(s) == ~s.created \/ ~s.available

\* `if _pinecone_instance is None`
NeedsConstruction(s) == ~s.created

get_pinecone_service(s, a) ==
    IF NeedsConstruction(s) THEN PineconeService_init(a) ELSE s

\* the client answers an operation may consume: none when the singleton exists
InitInputs ==
    IF NeedsConstruction(svc) THEN InitAnswers
    ELSE {[ctor |-> TRUE, index |-> TRUE, create |-> TRUE, index2 |-> TRUE]}

\* a guard that only asks whether an instance exists
Unavailable_uncreated(s) == ~s.created

\* `if not self.available or not self.index`
Unavailable(s) == ~s.available \/ ~s.index

-----------------------------------------------------------------------------
(* The index: upsert, query, delete *)

Users == {"u1", "u2"}

\* cosine similarity, in hundredths, of a stored turn to the query text
Scores == {0, 90}

\* index.query(namespace, vector, top_k, filter): the vectors of the
\* namespace that match the metadata filter
Matching(ns, flt) ==
    {v \in vectors : /\ v.ns = ns
                     /\ \A k \in DOMAIN flt : v.md[k] = flt[k]}

\* the score Pinecone reports for a vector: 0 against an all-zero query
ScoreOf(v, zero) == IF zero THEN 0 ELSE v.score

\* the best k of S by score, best first (equal scores: older id first)
RECURSIVE TopK(_, _, _)
TopK(S, k, zero) ==
    IF S = {} \/ k <= 0 THEN <<>>
    ELSE LET m == CHOOSE x \in S : \A y \in S :
                      \/ ScoreOf(x, zero) > ScoreOf(y, zero)
                      \/ ScoreOf(x, zero) = ScoreOf(y, zero) /\ x.id <= y.id
         IN  <<[id |-> m.id, score |-> ScoreOf(m, zero), metadata |-> m.md]>>
                 \o TopK(S \ {m}, k - 1, zero)

\* the turns of a list, newest first (chats.sort(key=timestamp, reverse=True))
RECURSIVE SortNewestFirst(_)
SortNewestFirst(S) ==
    IF S = {} THEN <<>>
    ELSE LET m == CHOOSE x \in S : \A y \in S : x.timestamp >= y.timestamp
         IN  <<m>> \o SortNewestFirst(S \ {m})

Range(s) == {s[i] : i \in DOMAIN s}

Prefix(s, n) == SubSeq(s, 1, IF Len(s) < n THEN Len(s) ELSE n)

-----------------------------------------------------------------------------
(* PineconeService: search_similar_chats, get_user_chat_history,           *)
(* store_chat_pair, delete_user_chats                                      *)

\* one entry of a result list
ChatEntry(m) ==
    [id |-> m.id, score |-> m.score, topic |-> m.metadata.topic,
     timestamp |-> m.metadata.timestamp, metadata |-> m.metadata]

\* a filter that leaves the topic out
SearchFilter_no_topic(user_id, topic) == [user_id |-> user_id]

SearchFilter(user_id, topic) ==
    IF Falsy(topic) THEN [user_id |-> user_id]
    ELSE [user_id |-> user_id, topic |-> topic]

\* returns the list and the calls made; e is the embedding endpoint's
\* answer, dbOk whether index.query answers
search_similar_chats(s, user_id, topic, limit, threshold, e, dbOk) ==
    IF Unavailable(s) THEN [ret |-> <<>>, calls |-> <<>>]
    ELSE
    LET q     == create_embedding(e)
        flt   == SearchFilter(user_id, topic)
        found == TopK(Matching(user_id, flt), limit, q.zero)
        kept  == SelectSeq(found, LAMBDA m : m.score >= threshold)
        out   == IF dbOk THEN [i \in DOMAIN kept |-> ChatEntry(kept[i])] ELSE <<>>
        qcall == [ev |-> "db.query", ns |-> user_id, flt |-> flt, top_k |-> limit,
                  threshold |-> threshold, dim |-> q.len, ok |-> dbOk,
                  n |-> Len(out)]
    IN  IF q.len # EMBED_DIM THEN [ret |-> <<>>, calls |-> EmbedCalls]
        ELSE [ret |-> out, calls |-> EmbedCalls \o <<qcall>>]

HistoryFilter(user_id, topic) ==
    IF Falsy(topic) THEN [user_id |-> user_id, type |-> "chat_pair"]
    ELSE [user_id |-> user_id, type |-> "chat_pair", topic |-> topic]

Min(a, b) == IF a < b THEN a ELSE b

\* what index.query may answer for the zero vector: any top_k of the matches
HistoryPicks(user_id, topic, limit) ==
    LET S == Matching(user_id, HistoryFilter(user_id, topic))
    IN  {P \in SUBSET S : Cardinality(P) = Min(limit, Cardinality(S))}

\* pick is the set of matches index.query answered with
get_user_chat_history(s, user_id, limit, topic, pick, dbOk) ==
    IF Unavailable(s) THEN [ret |-> <<>>, calls |-> <<>>]
    ELSE
    LET flt   == HistoryFilter(user_id, topic)
        chats == {ChatEntry([id |-> v.id, score |-> 0, metadata |-> v.md]) : v \in pick}
        out   == IF dbOk THEN Prefix(SortNewestFirst(chats), limit) ELSE <<>>
        qcall == [ev |-> "db.query", ns |-> user_id, flt |-> flt, top_k |-> limit,
                  threshold |-> 0, dim |-> EMBED_DIM, ok |-> dbOk, n |-> Len(out)]
    IN  [ret |-> out, calls |-> <<qcall>>]

\* returns the new id (or None), the calls and the index afterwards; score is
\* the similarity the stored text has to the query text
store_chat_pair(s, user_id, topic, e, score, dbOk) ==
    IF Unavailable(s) THEN [ret |-> NONE, calls |-> <<>>, vectors |-> vectors]
    ELSE
    LET emb == create_embedding(e)
        id  == nextId + 1
        md  == [user_id |-> user_id, topic |-> topic, type |-> "chat_pair",
                timestamp |-> id]
        vec == [id |-> id, ns |-> user_id, md |-> md, dim |-> emb.len,
                score |-> IF emb.zero THEN 0 ELSE score]
        up  == [ev |-> "db.upsert", ns |-> user_id, id |-> id, dim |-> emb.len,
                ok |-> dbOk]
    IN  IF emb.len # EMBED_DIM \/ topic = None
        THEN [ret |-> NONE, calls |-> EmbedCalls, vectors |-> vectors]
        ELSE IF ~dbOk
        THEN [ret |-> NONE, calls |-> EmbedCalls \o <<up>>, vectors |-> vectors]
        ELSE [ret |-> Some(id), calls |-> EmbedCalls \o <<up>>,
              vectors |-> {v \in vectors : v.id # id} \cup {vec}]

\* vector_ids is NONE or Some(the set of the listed ids)
delete_user_chats(s, user_id, vector_ids, dbOk) ==
    IF Unavailable(s) THEN [ret |-> FALSE, calls |-> <<>>, vectors |-> vectors]
    ELSE
    LET all == vector_ids = NONE \/ vector_ids = Some({})
        del == [ev |-> "db.delete", ns |-> user_id, all |-> all, ok |-> dbOk]
    IN  IF ~dbOk THEN [ret |-> FALSE, calls |-> <<del>>, vectors |-> vectors]
        ELSE IF all
        THEN [ret |-> TRUE, calls |-> <<del>>,
              vectors |-> {v \in vectors : v.ns # user_id}]
        ELSE [ret |-> TRUE, calls |-> <<del>>,
              vectors |-> {v \in vectors : ~(v.ns = user_id /\ v.id \in vector_ids[1])}]

-----------------------------------------------------------------------------
(* store_chat_pair, step by step, for calls that run at the same time *)

Threads == 1..NumThreads

\* a thread that is not in store_chat_pair
NoStore == [pc |-> "idle", msg |-> <<>>, id |-> <<>>, ret |-> NONE]

\* the user the threads store for
StoreUser == "u1"

\* the messages they store
StoreMessages == {M_hi, M_concept}

\* uuid.uuid4().hex[:8]: two of the 16^8 values it can take
UuidPrefixes == {"a3f09b1c", "7e2d44b0"}

\* int(datetime.now().timestamp()): the seconds the calls can fall into
Seconds == {1700000000, 1700000001}

\* f"{user_id}_{uuid.uuid4().hex[:8]}_{int(datetime.now().timestamp())}"
VectorId(user_id, hex, second) == <<user_id, hex, second>>

\* index.upsert(vectors=[vec], namespace=ns): a vector with the same id in
\* the namespace is replaced
Upserted(V, vec) == {v \in V : ~(v.ns = vec.ns /\ v.id = vec.id)} \cup {vec}

-----------------------------------------------------------------------------
(* ai_helpers.create_memory_context and store_conversation_memory          *)

\* similarity thresholds, in hundredths
DEFAULT_THRESHOLD == 75

PERSONAL_THRESHOLD == 40

SHORT_THRESHOLD == 30

CODE_THRESHOLD == 80

CONCEPT_THRESHOLD == 70

FALLBACK_FLOOR == 20

FALLBACK_STEP == 20

HISTORY_SCORE == 50

DEFAULT_LIMIT == 5

SHORT_LIMIT == 3

\* section 1: the query's classification
Classify(query) ==
    LET q == Strip(Lower(query))
    IN  [is_personal   |-> AnyIn(personal_keywords, q),
         is_code       |-> AnyIn(code_keywords, q),
         is_concept    |-> AnyIn(concept_keywords, q),
         is_short      |-> \E kw \in short_queries :
                              kw = q \/ Contains(q, kw \o <<" ">>),
         is_very_short |-> WordCount(q) <= 2]

\* the chat messages the model sends as queries (None: no message)
Queries == {M_concept, M_howto, M_hi, M_personal, M_plain, None}

\* the classification of each query text, computed once
ClassTable == [q \in Queries \ {None} |-> Classify(q)]

\* section 2: topic filter, threshold and limit of the search
SearchParams(c, topic) ==
    IF c.is_personal
    THEN [topic |-> None, threshold |-> PERSONAL_THRESHOLD, limit |-> DEFAULT_LIMIT]
    ELSE IF c.is_short \/ c.is_very_short
    THEN [topic |-> None, threshold |-> SHORT_THRESHOLD, limit |-> SHORT_LIMIT]
    ELSE IF c.is_code
    THEN [topic |-> topic, threshold |-> CODE_THRESHOLD, limit |-> DEFAULT_LIMIT]
    ELSE IF c.is_concept
    THEN [topic |-> topic, threshold |-> CONCEPT_THRESHOLD, limit |-> DEFAULT_LIMIT]
    ELSE [topic |-> topic, threshold |-> DEFAULT_THRESHOLD, limit |-> DEFAULT_LIMIT]

\* max(0.2, search_threshold - 0.2)
FallbackThreshold(t) ==
    IF t - FALLBACK_STEP > FALLBACK_FLOOR THEN t - FALLBACK_STEP ELSE FALLBACK_FLOOR

\* strategy 1 runs: `if search_topic and not (is_personal or is_short)`
UsesTopicSearch(c, p) == ~Falsy(p.topic) /\ ~(c.is_personal \/ c.is_short)

\* strategy 3: a history entry as a similar chat
HistoryAsSimilar(h) == [i \in DOMAIN h |-> [h[i] EXCEPT !.score = HISTORY_SCORE]]

\* strategy 2 runs after strategy 1's result r1: `if not similar_chats`
NeedsFallbackSearch(r1) == r1 = <<>>

\* a ladder without its last step
NeedsHistory_never(r2) == FALSE

\* strategy 3 runs after strategy 2's result r2: `if not similar_chats`
NeedsHistory(r2) == r2 = <<>>

NoCall == [ret |-> <<>>, calls |-> <<>>]

EmptyContext == [context_text |-> <<>>, similar_chats |-> <<>>]

\* format_retrieved_context: one numbered entry per chat, or ""
format_retrieved_context(similar_chats) ==
    [i \in DOMAIN similar_chats |->
        [n |-> i, topic |-> similar_chats[i].topic, score |-> similar_chats[i].score]]

\* x: the collaborators' answers (a1, a2: the embedding endpoint's and
\* index.query's answers to the two searches; d3, d4: index.query's answers
\* to the two history queries; pick, pick4: their matches)
create_memory_context(s, query, user_id, topic, use_memory, x) ==
    IF ~use_memory \/ ~s.available THEN [ret |-> EmptyContext, calls |-> <<>>]
    ELSE IF query = None THEN [ret |-> EmptyContext, calls |-> <<>>]
    ELSE
    LET c  == ClassTable[query]
        p  == SearchParams(c, topic)
        r1 == IF UsesTopicSearch(c, p)
              THEN search_similar_chats(s, user_id, p.topic, p.limit,
                                        p.threshold, x.a1.e, x.a1.d)
              ELSE NoCall
        r2 == IF NeedsFallbackSearch(r1.ret)
              THEN search_similar_chats(s, user_id, None, p.limit,
                                        FallbackThreshold(p.threshold),
                                        x.a2.e, x.a2.d)
              ELSE NoCall
        s2 == IF NeedsFallbackSearch(r1.ret) THEN r2.ret ELSE r1.ret
        r3 == IF NeedsHistory(s2)
              THEN get_user_chat_history(s, user_id, p.limit, None, x.pick, x.d3)
              ELSE NoCall
        s3 == IF NeedsHistory(s2) /\ r3.ret # <<>> THEN HistoryAsSimilar(r3.ret) ELSE s2
        \* section 4: with nothing found, the history is fetched once more
        \* and only printed
        r4 == IF s3 = <<>>
              THEN get_user_chat_history(s, user_id, DEFAULT_LIMIT, None, x.pick4, x.d4)
              ELSE NoCall
    IN  [ret |-> [context_text |-> format_retrieved_context(s3),
                  similar_chats |-> s3,
                  search_debug |-> [is_personal |-> c.is_personal,
                                    is_code |-> c.is_code,
                                    is_concept |-> c.is_concept,
                                    is_short |-> c.is_short,
                                    used_threshold |-> p.threshold,
                                    used_topic_filter |-> p.topic # None,
                                    found_chats |-> Len(s3)]],
         calls |-> r1.calls \o r2.calls \o r3.calls \o r4.calls]

\* returns whether a vector id came back, the calls and the index afterwards
store_conversation_memory(s, user_id, topic, e, score, dbOk) ==
    LET r == store_chat_pair(s, user_id, topic, e, score, dbOk)
    IN  [ret |-> r.ret # NONE, calls |-> r.calls, vectors |-> r.vectors]

-----------------------------------------------------------------------------
(* Inputs of the memory operations *)

Topics == {T_python, T_react}

OptTopics == Topics \cup {None}

Limits == {1, DEFAULT_LIMIT}

Thresholds == {0, DEFAULT_THRESHOLD}

EmbedOk == [kind |-> "vec", len |-> 384]

EmbedRaise == [kind |-> "raise", len |-> 0]

\* the answers one search can get: both collaborators answer, the embedding
\* endpoint fails, index.query fails
SearchAnswers ==
    { [e |-> EmbedOk, d |-> TRUE], [e |-> EmbedRaise, d |-> TRUE],
      [e |-> EmbedOk, d |-> FALSE] }

\* the answers create_memory_context can consume
MemoryAnswers(user_id, limit) ==
    [a1 : SearchAnswers, a2 : SearchAnswers, d3 : BOOLEAN, d4 : BOOLEAN,
     pick : HistoryPicks(user_id, None, limit),
     pick4 : HistoryPicks(user_id, None, DEFAULT_LIMIT)]

\* the limit create_memory_context searches with
LimitOf(query, topic) ==
    IF query = None THEN DEFAULT_LIMIT ELSE SearchParams(ClassTable[query], topic).limit

-----------------------------------------------------------------------------
(* Initial state *)

Init ==
    /\ env \in [api_key : BOOLEAN, pinecone_pkg : BOOLEAN, embeddings_ok : BOOLEAN]
    /\ svc = NoService
    /\ vectors = {}
    /\ nextId = 0
    /\ op = "none"
    /\ req = <<>>
    /\ ret = <<>>
    /\ fault = "none"
    /\ calls = <<>>
    /\ threads = [t \in Threads |-> NoStore]

\* no operation is being observed
Idle == op = "none"

\* the caller has taken the result of the last operation
Return ==
    /\ ~Idle
    /\ op' = "none"
    /\ req' = <<>>
    /\ ret' = <<>>
    /\ fault' = "none"
    /\ calls' = <<>>
    /\ UNCHANGED <<threads, env, svc, vectors, nextId>>

-----------------------------------------------------------------------------
(* The memory operations *)

GetPineconeService ==
    /\ Idle
    /\ \E a \in InitInputs :
        /\ svc' = get_pinecone_service(svc, a)
        /\ op' = "get_pinecone_service"
        /\ req' = [first |-> NeedsConstruction(svc), a |-> a]
        /\ ret' = [available |-> svc'.available,
                   path |-> IF NeedsConstruction(svc) THEN InitPath(a) ELSE <<>>]
        /\ fault' = "none"
        /\ calls' = <<>>
        /\ UNCHANGED <<threads, env, vectors, nextId>>

SearchSimilarChats ==
    /\ Idle
    /\ svc.created
    /\ \E user_id \in Users, topic \in OptTopics, limit \in Limits,
          threshold \in Thresholds, e \in EmbedAnswers, dbOk \in BOOLEAN :
        LET r == search_similar_chats(svc, user_id, topic, limit, threshold, e, dbOk)
        IN  /\ op' = "search_similar_chats"
            /\ req' = [user_id |-> user_id, topic |-> topic, limit |-> limit,
                       threshold |-> threshold]
            /\ ret' = r.ret
            /\ calls' = r.calls
            /\ fault' = "none"
            /\ UNCHANGED <<threads, env, svc, vectors, nextId>>

GetUserChatHistory ==
    /\ Idle
    /\ svc.created
    /\ \E user_id \in Users, topic \in OptTopics, limit \in Limits, dbOk \in BOOLEAN :
        \E pick \in HistoryPicks(user_id, topic, limit) :
        LET r == get_user_chat_history(svc, user_id, limit, topic, pick, dbOk)
        IN  /\ op' = "get_user_chat_history"
            /\ req' = [user_id |-> user_id, topic |-> topic, limit |-> limit]
            /\ ret' = r.ret
            /\ calls' = r.calls
            /\ fault' = "none"
            /\ UNCHANGED <<threads, env, svc, vectors, nextId>>

StoreChatPair ==
    /\ Idle
    /\ svc.created
    /\ nextId < MaxTurns
    /\ \E user_id \in Users, topic \in OptTopics, e \in EmbedAnswers,
          score \in Scores, dbOk \in BOOLEAN :
        LET r == store_chat_pair(svc, user_id, topic, e, score, dbOk)
        IN  /\ op' = "store_chat_pair"
            /\ req' = [user_id |-> user_id, topic |-> topic, e |-> e]
            /\ ret' = r.ret
            /\ calls' = r.calls
            /\ vectors' = r.vectors
            /\ nextId' = IF r.ret = NONE THEN nextId ELSE nextId + 1
            /\ fault' = "none"
            /\ UNCHANGED <<threads, env, svc>>

DeleteUserChats ==
    /\ Idle
    /\ svc.created
    /\ \E user_id \in Users, dbOk \in BOOLEAN,
          vector_ids \in {NONE} \cup {Some(I) : I \in SUBSET (1..nextId)} :
        LET r == delete_user_chats(svc, user_id, vector_ids, dbOk)
        IN  /\ op' = "delete_user_chats"
            /\ req' = [user_id |-> user_id, vector_ids |-> vector_ids]
            /\ ret' = r.ret
            /\ calls' = r.calls
            /\ vectors' = r.vectors
            /\ fault' = "none"
            /\ UNCHANGED <<threads, env, svc, nextId>>

CreateMemoryContext ==
    /\ Idle
    /\ \E query \in Queries, user_id \in Users, topic \in OptTopics,
          use_memory \in BOOLEAN, a \in InitInputs :
        LET s == IF use_memory THEN get_pinecone_service(svc, a) ELSE svc
        IN  \E r \in {create_memory_context(s, query, user_id, topic, use_memory, x) :
                        x \in MemoryAnswers(user_id, LimitOf(query, topic))} :
                /\ svc' = s
                /\ op' = "create_memory_context"
                /\ req' = [query |-> query, user_id |-> user_id, topic |-> topic,
                           use_memory |-> use_memory]
                /\ ret' = r.ret
                /\ calls' = r.calls
                /\ fault' = "none"
                /\ UNCHANGED <<threads, env, vectors, nextId>>

StoreConversationMemory ==
    /\ Idle
    /\ nextId < MaxTurns
    /\ \E user_id \in Users, topic \in OptTopics, e \in EmbedAnswers,
          score \in Scores, dbOk \in BOOLEAN, a \in InitInputs :
        LET s == get_pinecone_service(svc, a)
            r == store_conversation_memory(s, user_id, topic, e, score, dbOk)
        IN  /\ svc' = s
            /\ op' = "store_conversation_memory"
            /\ req' = [user_id |-> user_id, topic |-> topic]
            /\ ret' = r.ret
            /\ calls' = r.calls
            /\ vectors' = r.vectors
            /\ nextId' = IF r.ret THEN nextId + 1 ELSE nextId
            /\ fault' = "none"
            /\ UNCHANGED <<threads, env>>

MemoryNext ==
    \/ GetPineconeService
    \/ SearchSimilarChats
    \/ GetUserChatHistory
    \/ StoreChatPair
    \/ DeleteUserChats
    \/ CreateMemoryContext
    \/ StoreConversationMemory
    \/ Return

MemorySpec == Init /\ [][MemoryNext]_vars

-----------------------------------------------------------------------------
(* store_chat_pair calls that run at the same time *)

\* the thread's view of its own call
Step(t, next) ==
    /\ threads' = [threads EXCEPT ![t] = next]
    /\ UNCHANGED <<env, svc, nextId, op, req, ret, fault, calls>>

\* the call enters: `if not self.available or not self.index: return None`
BeginStore(t) ==
    /\ threads[t].pc = "idle"
    /\ svc.created
    /\ \E msg \in StoreMessages :
        Step(t, IF Unavailable(svc)
                THEN [NoStore EXCEPT !.pc = "done", !.msg = msg]
                ELSE [NoStore EXCEPT !.pc = "embed", !.msg = msg])
    /\ UNCHANGED vectors

\* embedding = self.create_embedding(combined_text), and the length check
EmbedPair(t) ==
    /\ threads[t].pc = "embed"
    /\ \E e \in EmbedAnswers :
        LET emb == create_embedding(e)
        IN  Step(t, IF emb.len # EMBED_DIM
                    THEN [threads[t] EXCEPT !.pc = "done"]
                    ELSE [threads[t] EXCEPT !.pc = "name"])
    /\ UNCHANGED vectors

\* vector_id = ...: the uuid prefix and the second are whatever they are
GenerateId(t) ==
    /\ threads[t].pc = "name"
    /\ \E hex \in UuidPrefixes, second \in Seconds :
        Step(t, [threads[t] EXCEPT !.pc = "upsert",
                                   !.id = VectorId(StoreUser, hex, second)])
    /\ UNCHANGED vectors

\* self.index.upsert(...), then `return vector_id`; None if it raises
UpsertPair(t) ==
    /\ threads[t].pc = "upsert"
    /\ \E dbOk \in BOOLEAN :
        LET me  == threads[t]
            vec == [id |-> me.id, ns |-> StoreUser, dim |-> EMBED_DIM,
                    score |-> 0,
                    md |-> [user_id |-> StoreUser, user_message |-> me.msg,
                            type |-> "chat_pair", timestamp |-> me.id[3]]]
        IN  IF dbOk
            THEN /\ vectors' = Upserted(vectors, vec)
                 /\ Step(t, [me EXCEPT !.pc = "done", !.ret = Some(me.id)])
            ELSE /\ UNCHANGED vectors
                 /\ Step(t, [me EXCEPT !.pc = "done"])

StoreNext ==
    \/ GetPineconeService
    \/ Return
    \/ \E t \in Threads : BeginStore(t)
    \/ \E t \in Threads : EmbedPair(t)
    \/ \E t \in Threads : GenerateId(t)
    \/ \E t \in Threads : UpsertPair(t)

\* the store is configured; whether it comes up is the client's answer
StoreInit ==
    /\ Init
    /\ env = [api_key |-> TRUE, pinecone_pkg |-> TRUE, embeddings_ok |-> TRUE]

StoreSpec == StoreInit /\ [][StoreNext]_vars

-----------------------------------------------------------------------------
(* Text: characters, regular expressions of extract_json_from_text, json  *)

\* the backquote, a character that a TLA+ string cannot hold
BACKQUOTE == "<backquote>"

DIGITS == {"0","1","2","3","4","5","6","7","8","9"}

\* [\w\-]
IsTagChar(c) == LowerChar(c) \in
    {"a","b","c","d","e","f","g","h","i","j","k","l","m","n","o","p","q","r",
     "s","t","u","v","w","x","y","z","_","-"} \cup DIGITS

\* values that are no str: None, a number
NonStrings == {None, <<"int">>}

\* the concatenation of ss[lo..hi]
RECURSIVE FlatRange(_, _, _)
FlatRange(ss, lo, hi) ==
    IF lo > hi THEN <<>>
    ELSE IF lo = hi THEN ss[lo]
    ELSE LET mid == (lo + hi) \div 2
         IN  FlatRange(ss, lo, mid) \o FlatRange(ss, mid + 1, hi)

\* "".join(ss)
Flatten(ss) == FlatRange(ss, 1, Len(ss))

\* s[n:]
From(s, n) == SubSeq(s, n, Len(s))

StartsWith(s, p) == Len(s) >= Len(p) /\ SubSeq(s, 1, Len(p)) = p

EndsWith(s, p) == Len(s) >= Len(p) /\ From(s, Len(s) - Len(p) + 1) = p

\* the least element of a non-empty set of numbers, and the greatest
Least(S) == CHOOSE i \in S : \A j \in S : i <= j

Greatest(S) == CHOOSE i \in S : \A j \in S : j <= i

\* the first re.sub: an opening fence, its tag [\w\-]* and one newline go
StripOpeningFence(text) ==
    IF ~StartsWith(text, <<BACKQUOTE,BACKQUOTE,BACKQUOTE>>) THEN text
    ELSE LET rest == {i \in 4..Len(text) : ~IsTagChar(text[i])}
             stop == IF rest = {} THEN Len(text) + 1 ELSE Least(rest)
         IN  IF stop <= Len(text) /\ text[stop] = "\n" THEN From(text, stop + 1)
             ELSE From(text, stop)

\* the second re.sub: a closing fence at the end goes, with one newline
\* before it (the text ends in no newline: it was stripped)
StripClosingFence(text) ==
    IF ~EndsWith(text, <<BACKQUOTE,BACKQUOTE,BACKQUOTE>>) THEN text
    ELSE LET n == Len(text) - 3
         IN  IF n >= 1 /\ text[n] = "\n" THEN SubSeq(text, 1, n - 1)
             ELSE SubSeq(text, 1, n)

\* `if text.lower().startswith("json"): text = text[4:].strip()`
StripJsonWord(text) ==
    IF StartsWith(Lower(text), <<"j","s","o","n">>) THEN Strip(From(text, 5)) ELSE text

\* re.sub(r'"([^"]*)"', escape_apostrophes, json_str): the character at i is
\* between the quotes of a match when an odd number of quotes comes before it
\* and a quote comes after it
InQuotes(s, i) ==
    /\ s[i] # "\""
    /\ Cardinality({j \in 1..(i - 1) : s[j] = "\""}) % 2 = 1
    /\ \E j \in (i + 1)..Len(s) : s[j] = "\""

EscapeApostrophes(s) ==
    Flatten([i \in DOMAIN s |->
                IF s[i] = "'" /\ InQuotes(s, i) THEN <<"\\", "'">>
                ELSE <<s[i]>>])

\* json_str.replace('\n', '\\n').replace('\r', '\\r')
EscapeNewlines(s) ==
    Flatten([i \in DOMAIN s |->
                IF s[i] = "\n" THEN <<"\\", "n">>
                ELSE IF s[i] = "\r" THEN <<"\\", "r">>
                ELSE <<s[i]>>])

\* re.sub(r',\s*}', '}', json_str) with close = "}", and the same for "]":
\* a comma that only white space separates from close goes, with that space
RemoveTrailingCommas(s, close) ==
    LET gone(i) == \E c \in 1..i :
                       /\ s[c] = ","
                       /\ \E j \in (i + 1)..Len(s) :
                              /\ s[j] = close
                              /\ \A k \in (c + 1)..(j - 1) : IsSpace(s[k])
        keep == SelectSeq([i \in DOMAIN s |-> i], LAMBDA i : ~gone(i))
    IN  [k \in DOMAIN keep |-> s[keep[k]]]

-----------------------------------------------------------------------------
(* json.loads and json.dumps.  A JSON value is the sequence of the tokens *)
(* of its parse: "{" "}" "[" "]", a key, a string, a number, a literal.   *)
(* The texts of the model repeat no key in an object, so that two values  *)
(* are equal as Python objects exactly if their token sequences are.      *)

Tok(t, v) == [t |-> t, v |-> v]

Punct(c) == Tok(c, <<>>)

\* a parse: failed, or the tokens read and the position after them
Failed == [ok |-> FALSE, toks |-> <<>>, pos |-> 0]

Parsed(toks, pos) == [ok |-> TRUE, toks |-> toks, pos |-> pos]

\* the position of the first character that is no white space, from i on
SkipSpace(s, i) ==
    LET rest == {j \in i..Len(s) : ~IsSpace(s[j])}
    IN  IF rest = {} THEN Len(s) + 1 ELSE Least(rest)

\* the character an escape stands for (\uXXXX is in no text of the model)
Unescape(c) ==
    CASE c = "n" -> "\n"
      [] c = "r" -> "\r"
      [] c = "t" -> "\t"
      [] c = "b" -> "<BS>"
      [] c = "f" -> "<FF>"
      [] OTHER -> c

\* the characters of a string, read from after its opening quote
RECURSIVE ScanString(_, _, _)
ScanString(s, j, acc) ==
    IF j > Len(s) THEN Failed
    ELSE IF s[j] = "\"" THEN Parsed(acc, j + 1)
    ELSE IF s[j] = "\\"
    THEN IF j + 1 <= Len(s) /\ s[j + 1] \in {"\"", "\\", "/", "b", "f", "n", "r", "t"}
         THEN ScanString(s, j + 2, Append(acc, Unescape(s[j + 1])))
         ELSE Failed
    ELSE IF s[j] \in {"\n", "\r", "\t"} THEN Failed
    ELSE ScanString(s, j + 1, Append(acc, s[j]))

LITERALS == {<<"t","r","u","e">>, <<"f","a","l","s","e">>, <<"n","u","l","l">>, <<"N","a","N">>, <<"I","n","f","i","n","i","t","y">>}

\* the digits of a number that starts at i (the texts of the model hold
\* whole numbers without a sign)
NumberAt(s, i) ==
    LET rest == {j \in i..Len(s) : s[j] \notin DIGITS}
        stop == IF rest = {} THEN Len(s) + 1 ELSE Least(rest)
    IN  IF s[i] = "0" THEN <<"0">> ELSE SubSeq(s, i, stop - 1)

RECURSIVE ParseValue(_, _), ParseMembers(_, _, _), ParseElements(_, _, _)
\* a value that starts at position i
ParseValue(s, i) ==
    IF i > Len(s) THEN Failed
    ELSE IF s[i] = "\""
    THEN LET r == ScanString(s, i + 1, <<>>)
         IN  IF r.ok THEN Parsed(<<Tok("str", r.toks)>>, r.pos) ELSE Failed
    ELSE IF s[i] = "{"
    THEN LET j == SkipSpace(s, i + 1)
         IN  IF j <= Len(s) /\ s[j] = "}"
             THEN Parsed(<<Punct("{"), Punct("}")>>, j + 1)
             ELSE ParseMembers(s, j, <<Punct("{")>>)
    ELSE IF s[i] = "["
    THEN LET j == SkipSpace(s, i + 1)
         IN  IF j <= Len(s) /\ s[j] = "]"
             THEN Parsed(<<Punct("["), Punct("]")>>, j + 1)
             ELSE ParseElements(s, j, <<Punct("[")>>)
    ELSE IF s[i] \in DIGITS
    THEN LET n == NumberAt(s, i)
         IN  Parsed(<<Tok("num", n)>>, i + Len(n))
    ELSE IF \E w \in LITERALS : StartsWith(From(s, i), w)
    THEN LET lit == CHOOSE w \in LITERALS : StartsWith(From(s, i), w)
         IN  Parsed(<<Tok("lit", lit)>>, i + Len(lit))
    ELSE Failed

\* the members of an object from position j on: a key, a colon, a value,
\* then "}" or a comma and the next member
ParseMembers(s, j, acc) ==
    IF j > Len(s) \/ s[j] # "\"" THEN Failed
    ELSE
    LET key == ScanString(s, j + 1, <<>>)
    IN  IF ~key.ok THEN Failed
        ELSE
        LET c == SkipSpace(s, key.pos)
        IN  IF c > Len(s) \/ s[c] # ":" THEN Failed
            ELSE
            LET v == ParseValue(s, SkipSpace(s, c + 1))
            IN  IF ~v.ok THEN Failed
                ELSE
                LET m    == SkipSpace(s, v.pos)
                    read == acc \o <<Tok("key", key.toks)>> \o v.toks
                IN  IF m > Len(s) THEN Failed
                    ELSE IF s[m] = "}" THEN Parsed(Append(read, Punct("}")), m + 1)
                    ELSE IF s[m] = ","
                    THEN ParseMembers(s, SkipSpace(s, m + 1), read)
                    ELSE Failed

\* the elements of an array from position j on
ParseElements(s, j, acc) ==
    LET v == ParseValue(s, j)
    IN  IF ~v.ok THEN Failed
        ELSE
        LET m    == SkipSpace(s, v.pos)
            read == acc \o v.toks
        IN  IF m > Len(s) THEN Failed
            ELSE IF s[m] = "]" THEN Parsed(Append(read, Punct("]")), m + 1)
            ELSE IF s[m] = ","
            THEN ParseElements(s, SkipSpace(s, m + 1), read)
            ELSE Failed

\* json.loads(s): Some(the value), or NONE for a JSONDecodeError
json_loads(s) ==
    LET v == ParseValue(s, SkipSpace(s, 1))
    IN  IF v.ok /\ SkipSpace(s, v.pos) > Len(s) THEN Some(v.toks) ELSE NONE

\* a string between quotes, as json.dumps writes it
Quoted(v) ==
    <<"\"">> \o Flatten([i \in DOMAIN v |->
                            IF v[i] = "\"" THEN <<"\\", "\"">>
                            ELSE IF v[i] = "\\" THEN <<"\\", "\\">>
                            ELSE IF v[i] = "\n" THEN <<"\\", "n">>
                            ELSE <<v[i]>>]) \o <<"\"">>

EndsValue(tok) == tok.t \in {"str", "num", "lit", "}", "]"}

Closes(tok) == tok.t \in {"}", "]"}

\* the text of a value: on one line or one member per line ("pretty"), and
\* with a comma after the last member of every object and array or without
json_dumps(toks, pretty, commas) ==
    LET sep == IF pretty THEN <<",", "\n">> ELSE <<",">>
        text(i) ==
            CASE toks[i].t = "key" -> Quoted(toks[i].v) \o <<":">>
              [] toks[i].t = "str" -> Quoted(toks[i].v)
              [] toks[i].t \in {"num", "lit"} -> toks[i].v
              [] toks[i].t = "{" -> IF pretty /\ ~Closes(toks[i + 1])
                                    THEN <<"{", "\n">> ELSE <<"{">>
              [] OTHER -> <<toks[i].t>>
        before(i) ==
            IF i = 1 \/ ~EndsValue(toks[i - 1]) THEN <<>>
            ELSE IF ~Closes(toks[i]) THEN sep
            ELSE IF commas THEN sep
            ELSE IF pretty /\ toks[i].t = "}" THEN <<"\n">>
            ELSE <<>>
    IN  Flatten([i \in DOMAIN toks |-> before(i) \o text(i)])

-----------------------------------------------------------------------------
(* ai_helpers.extract_json_from_text *)

SALVAGE_LIMIT == 500

\* the last resort: the slice the text was cut to, its first 500 characters
\* and "...", under "answer", and four empty lists
LastResort(slice) ==
    << Punct("{"),
       Tok("key", <<"a","n","s","w","e","r">>),
       Tok("str", Prefix(slice, SALVAGE_LIMIT) \o <<".",".",".">>),
       Tok("key", <<"k","e","y","_","p","o","i","n","t","s">>), Punct("["), Punct("]"),
       Tok("key", <<"s","t","e","p","s">>), Punct("["), Punct("]"),
       Tok("key", <<"e","x","a","m","p","l","e","s">>), Punct("["), Punct("]"),
       Tok("key", <<"c","o","d","e","_","b","l","o","c","k","s">>), Punct("["), Punct("]"),
       Punct("}") >>

\* a search that takes the last "{" for the first
Find_last(s, c) ==
    LET at == {i \in DOMAIN s : s[i] = c}
    IN  IF at = {} THEN 0 ELSE Greatest(at)

\* s.find(c) and s.rfind(c), counted from 1; 0 stands for -1
Find(s, c) ==
    LET at == {i \in DOMAIN s : s[i] = c}
    IN  IF at = {} THEN 0 ELSE Least(at)

RFind(s, c) ==
    LET at == {i \in DOMAIN s : s[i] = c}
    IN  IF at = {} THEN 0 ELSE Greatest(at)

\* a test that also gives up when the last "}" comes before the first "{"
NoObject_ordered(start, end) == start = 0 \/ end = 0 \/ end < start

\* `if start == -1 or end == -1`
NoObject(start, end) == start = 0 \/ end = 0

\* the text from which the object is cut: stripped, without its outer code
\* fence and a leading "json"
Unfenced(text) ==
    StripJsonWord(Strip(StripClosingFence(StripOpeningFence(Strip(text)))))

\* text[start:end + 1] of that text
LocatedSlice(text) ==
    LET t == Unfenced(text)
    IN  SubSeq(t, Find(t, "{"), RFind(t, "}"))

\* json_str after the three repairs
Repaired(json_str) ==
    RemoveTrailingCommas(
        RemoveTrailingCommas(EscapeNewlines(EscapeApostrophes(json_str)), "}"),
        "]")

\* Some(the mapping), or NONE
extract_json_from_text(text) ==
    IF text \in NonStrings \/ text = <<>> THEN NONE
    ELSE
    LET t == Unfenced(text)
    IN  IF NoObject(Find(t, "{"), RFind(t, "}")) THEN NONE
        ELSE
        LET json_str == Strip(LocatedSlice(text))
            first    == json_loads(json_str)
            second   == json_loads(Repaired(json_str))
        IN  IF first # NONE THEN first
            ELSE IF second # NONE THEN second
            ELSE Some(LastResort(LocatedSlice(text)))

-----------------------------------------------------------------------------
(* Texts given to extract_json_from_text *)

Obj(members) == <<Punct("{")>> \o members \o <<Punct("}")>>

Member(k, v) == <<Tok("key", k)>> \o v

StrVal(s) == <<Tok("str", s)>>

EmptyList == <<Punct("["), Punct("]")>>

\* the objects a model answer holds: {"a":1}, {"a":"it's"},
\* {"a":[1,2],"b":{"c":"x"}}, {"a":"}{"}, {"a":",}"}, {}, {"a":"x\ny"}, and an
\* answer of the chat schema with all its lists empty
JsonObjects ==
    { Obj(Member(<<"a">>, <<Tok("num", <<"1">>)>>)),
      Obj(Member(<<"a">>, StrVal(<<"i","t","'","s">>))),
      Obj(Member(<<"a">>, <<Punct("["), Tok("num", <<"1">>), Tok("num", <<"2">>),
                            Punct("]")>>)
          \o Member(<<"b">>, Obj(Member(<<"c">>, StrVal(<<"x">>))))),
      Obj(Member(<<"a">>, StrVal(<<"}","{">>))),
      Obj(Member(<<"a">>, StrVal(<<",","}">>))),
      Obj(<<>>),
      Obj(Member(<<"a">>, StrVal(<<"x","\n","y">>))),
      Obj(Member(<<"a","n","s","w","e","r">>, StrVal(<<"{","a","}",".",".",".">>))
          \o Member(<<"k","e","y","_","p","o","i","n","t","s">>, EmptyList) \o Member(<<"s","t","e","p","s">>, EmptyList)
          \o Member(<<"e","x","a","m","p","l","e","s">>, EmptyList)
          \o Member(<<"c","o","d","e","_","b","l","o","c","k","s">>, EmptyList)) }

Wraps ==
    {"bare", "fence", "json_fence", "prose_fence", "prose", "json_word",
     "brace_before", "brace_after"}

\* a model answer around the text of an object: the text alone, in a code
\* fence without and with a language tag, and with prose around it
Wrap(w, body) ==
    CASE w = "bare" -> body
      [] w = "fence" -> <<BACKQUOTE,BACKQUOTE,BACKQUOTE,"\n">> \o body \o <<"\n",BACKQUOTE,BACKQUOTE,BACKQUOTE>>
      [] w = "json_fence" -> <<BACKQUOTE,BACKQUOTE,BACKQUOTE,"j","s","o","n","\n">> \o body \o <<"\n",BACKQUOTE,BACKQUOTE,BACKQUOTE>>
      [] w = "prose_fence" -> <<"S","u","r","e","!"," ",BACKQUOTE,BACKQUOTE,BACKQUOTE,"j","s","o","n","\n">> \o body \o <<"\n",BACKQUOTE,BACKQUOTE,BACKQUOTE>>
      [] w = "prose" -> <<"H","e","r","e"," ","i","t"," ","i","s",":","\n">> \o body \o <<"\n","H","o","p","e"," ","i","t"," ","h","e","l","p","s",".">>
      [] w = "json_word" -> <<"j","s","o","n"," ">> \o body
      [] w = "brace_before" -> <<"U","s","e"," ","{","x","}",":"," ">> \o body
      [] w = "brace_after" -> body \o <<" ",":","}">>

\* an answer that holds an unparseable slice of more than 500 characters
LongGarbled == <<"{">> \o [i \in 1..(SALVAGE_LIMIT + 10) |-> "a"] \o <<"}">>

\* answers that hold no object: no str, empty, blank, prose, one brace, the
\* braces the wrong way round, braces around prose, a fence alone
OtherTexts ==
    { None, <<"int">>, <<>>, <<" "," "," ">>, <<"n","o"," ","b","r","a","c","e","s"," ","h","e","r","e">>, <<"{","\"","a","\"",":","1">>,
      <<"\"","a","\"",":","1","}">>, <<"}"," ","{">>, <<"{","a","}">>, <<BACKQUOTE,BACKQUOTE,BACKQUOTE,"j","s","o","n">>, LongGarbled }

\* what is known of a text: the object written into it, how, and the wrap
ObjectTexts ==
    { [text |-> Wrap(w, json_dumps(o, p, c)), obj |-> o, pretty |-> p,
       commas |-> c, wrap |-> w] :
        o \in JsonObjects, p \in BOOLEAN, c \in BOOLEAN, w \in Wraps }

ExtractRequests ==
    ObjectTexts \cup
    { [text |-> t, obj |-> <<>>, pretty |-> FALSE, commas |-> FALSE,
       wrap |-> "none"] : t \in OtherTexts }

\* the answers the model gives run_chain as text
ChainTexts ==
    { Wrap("json_fence", json_dumps(o, TRUE, FALSE)) : o \in JsonObjects }
        \cup { <<>>, <<"n","o"," ","b","r","a","c","e","s"," ","h","e","r","e">>, <<"{","a","}">> }

\* extract_json_from_text of each text, computed once
ExtractTable ==
    [t \in {r.text : r \in ExtractRequests} \cup ChainTexts |->
        extract_json_from_text(t)]
-----------------------------------------------------------------------------
(* ai_helpers: language detection, prompts, run_chain *)

\* the keyword table of detect_language_from_topic, in its order
LanguageKeywords ==
    << [lang |-> "javascript", kws |->
          { <<"r", "e", "a", "c", "t">>,
            <<"j", "a", "v", "a", "s", "c", "r", "i", "p", "t">>,
            <<"n", "o", "d", "e">>,
            <<"v", "u", "e">>,
            <<"a", "n", "g", "u", "l", "a", "r">>,
            <<"j", "s">>,
            <<"j", "s", "x">> }],
       [lang |-> "typescript", kws |->
          { <<"t", "y", "p", "e", "s", "c", "r", "i", "p", "t">>,
            <<"t", "s">> }],
       [lang |-> "python", kws |->
          { <<"p", "y", "t", "h", "o", "n">>,
            <<"d", "j", "a", "n", "g", "o">>,
            <<"f", "l", "a", "s", "k">>,
            <<"f", "a", "s", "t", "a", "p", "i">>,
            <<"p", "y", "t", "o", "r", "c", "h">>,
            <<"t", "e", "n", "s", "o", "r", "f", "l", "o", "w">>,
            <<"m", "l">>,
            <<"m", "a", "c", "h", "i", "n", "e", " ", "l", "e", "a", "r", "n", "i", "n", "g">>,
            <<"d", "a", "t", "a", " ", "s", "c", "i", "e", "n", "c", "e">> }],
       [lang |-> "html", kws |->
          { <<"h", "t", "m", "l">>,
            <<"c", "s", "s">>,
            <<"t", "a", "i", "l", "w", "i", "n", "d">>,
            <<"b", "o", "o", "t", "s", "t", "r", "a", "p">> }],
       [lang |-> "java", kws |->
          { <<"j", "a", "v", "a">>,
            <<"s", "p", "r", "i", "n", "g">>,
            <<"a", "n", "d", "r", "o", "i", "d">> }],
       [lang |-> "cpp", kws |->
          { <<"c", "+", "+">>,
            <<"c", "p", "p">> }],
       [lang |-> "csharp", kws |->
          { <<"c", "#">>,
            <<"c", " ", "s", "h", "a", "r", "p">> }],
       [lang |-> "go", kws |->
          { <<"g", "o", " ">>,
            <<"g", "o", "l", "a", "n", "g">> }],
       [lang |-> "rust", kws |->
          { <<"r", "u", "s", "t">> }],
       [lang |-> "sql", kws |->
          { <<"s", "q", "l">>,
            <<"d", "a", "t", "a", "b", "a", "s", "e">>,
            <<"p", "o", "s", "t", "g", "r", "e", "s">>,
            <<"m", "y", "s", "q", "l">> }],
       [lang |-> "bash", kws |->
          { <<"b", "a", "s", "h">>,
            <<"s", "h", "e", "l", "l">> }] >>

RECURSIVE FirstLanguage(_, _)
FirstLanguage(t, i) ==
    IF i > Len(LanguageKeywords) THEN "auto"
    ELSE IF AnyIn(LanguageKeywords[i].kws, t) THEN LanguageKeywords[i].lang
    ELSE FirstLanguage(t, i + 1)

detect_language_from_topic(topic) ==
    IF Falsy(topic) THEN "auto" ELSE FirstLanguage(Lower(topic), 1)

\* the variables a prompt template must be given ({{...}} is an escaped brace)
InputVariables(prompt) ==
    CASE prompt = "chat_qa_prompt" ->
           {"chat_history", "language", "topic", "tasks_context", "question"}
      [] prompt = "task_qa_prompt" ->
           {"chat_history", "memory_context", "topic", "tasks_context",
            "is_code_request", "question"}
      [] prompt = "flashcards_prompt" -> {"topic", "understanding"}
      [] prompt = "study_guide_prompt" -> {"topic", "understanding"}
      [] prompt = "materials_prompt" -> {"topic"}
      [] prompt = "search_enhanced_prompt" ->
           {"chat_history", "memory_context", "search_results", "understanding",
            "question"}

\* a response text is a sequence of segments: prose, or a fenced code block
\* with its language tag ("" when the fence has none)
Prose(s) == [fence |-> FALSE, language |-> "", body |-> s]

Fenced(lang, s) == [fence |-> TRUE, language |-> lang, body |-> s]

\* the slice of an unparseable text, cut to 500 characters, then "..."
SalvageAnswer == <<Prose("{ ... }"), Prose("...")>>

\* the mapping extract_json_from_text salvages from text it cannot parse
SalvageMapping ==
    [answer |-> SalvageAnswer, key_points |-> <<>>, steps |-> <<>>,
     examples |-> <<>>, code_blocks |-> <<>>]

\* extract_json_from_text of an answer that is described, not spelled out:
\* "empty", "prose" (no braces), "json" (holds an object that parses, at
\* once or after the repairs, to t.obj), "garbled" (braces, but no parse)
extract_json_from_answer(t) ==
    CASE t.kind = "empty" -> NONE
      [] t.kind = "prose" -> NONE
      [] t.kind = "json" -> Some(t.obj)
      [] t.kind = "garbled" -> Some(SalvageMapping)

\* an injection that replaces what the caller supplied
WithDefault_always(data, k, v) ==
    [x \in DOMAIN data \cup {k} |-> IF x = k THEN v ELSE data[x]]

\* data with key k, set to v unless present
WithDefault(data, k, v) ==
    [x \in DOMAIN data \cup {k} |-> IF x \in DOMAIN data THEN data[x] ELSE v]

DEFAULT_TASKS_CONTEXT == <<"No specific tasks provided">>

\* section 0, first half: None and what dict() cannot convert become {}
SanitizeData(payload) ==
    IF payload.kind \in {"dict", "pairs"} THEN payload.d ELSE EmptyDict

\* data.get("topic") or data.get("Topic") or ""
TopicOf(data) ==
    IF ~Falsy(Get(data, "topic", None)) THEN data.topic
    ELSE IF ~Falsy(Get(data, "Topic", None)) THEN data.Topic
    ELSE <<>>

\* llm is the answer of the chain's model: "raise", "dict" (an object, not
\* text), "text" (a text, spelled out) or a text of one of the kinds above.
\* The one event is chain.invoke(data); its llm says whether the prompt
\* could be formatted, so that the model was called.
\* run_chain, given what extract_json_from_text makes of the answer text
ChainOutcome(prompt, data, llm, parsed) ==
    IF ~Has(data, "language") /\ TopicOf(data) \in NonStrings
    THEN [ret |-> NONE, calls |-> <<>>]
    ELSE
    LET d1 == WithDefault(data, "language", detect_language_from_topic(TopicOf(data)))
        d2 == WithDefault(d1, "tasks_context", DEFAULT_TASKS_CONTEXT)
        reached == InputVariables(prompt) \subseteq DOMAIN d2
        out == IF ~reached THEN NONE
               ELSE IF llm.kind = "raise" THEN NONE
               ELSE IF llm.kind = "dict" THEN Some(llm.obj)
               ELSE parsed
    IN  [ret |-> out,
         calls |-> <<[ev |-> "chain.invoke", prompt |-> prompt,
                      keys |-> DOMAIN d2, data |-> d2, llm |-> reached,
                      ret |-> out]>>]

\* run_chain for an answer given by its kind
run_chain(prompt, data, llm) ==
    ChainOutcome(prompt, data, llm, extract_json_from_answer(llm))

\* `if not result`: None or an empty dict
NoResult(r) == r = NONE \/ DOMAIN r[1] = {}

-----------------------------------------------------------------------------
(* ai_helpers: response text, search decision; AIService fallbacks *)

\* the code blocks of a text, and the text with each block fenced again
\* under its language, "text" when it had none
enhanced_process_ai_response(raw_text) ==
    IF raw_text = <<>> THEN [text |-> <<>>, code_blocks |-> <<>>]
    ELSE
    LET lang(g) == IF g.language = "" THEN "text" ELSE g.language
        blocks  == SelectSeq(raw_text, LAMBDA g : g.fence)
    IN  [text |-> [i \in DOMAIN raw_text |->
                     IF raw_text[i].fence
                     THEN Fenced(lang(raw_text[i]), raw_text[i].body)
                     ELSE raw_text[i]],
         code_blocks |-> [i \in DOMAIN blocks |->
                     [id |-> i - 1, language |-> lang(blocks[i]),
                      code |-> blocks[i].body]]]

\* str(response)
StrOfDict(d) == <<Prose("str(response)")>>

should_use_search(message) ==
    LET message_lower == Lower(message)
    IN  \/ AnyIn(SEARCH_TEMPORAL, message_lower)
        \/ AnyIn(SEARCH_HOWTO, message_lower)
        \/ AnyIn(SEARCH_RESOURCE, message_lower)

\* `search` is the function ai_helpers.search; search.run is a lookup of an
\* attribute a function does not have
SearchHasRun == FALSE

\* f"...{topic}..."
F(pre, topic, post) == <<pre>> \o Str(topic) \o <<post>>

Card(q, a, c, d) == [question |-> q, answer |-> a, category |-> c, difficulty |-> d]

create_fallback_flashcards(topic) ==
    IF Contains(Lower(Str(topic)), KW_python)
    THEN << Card(<<"What is the difference between a list and a tuple in Python?">>,
                 <<"Lists are mutable (can be modified) while tuples are immutable (cannot be modified). Lists use square brackets [] and tuples use parentheses ().">>,
                 <<"Data Structures">>, <<"easy">>),
            Card(<<"How do you define a function in Python?">>,
                 <<"Using the 'def' keyword followed by the function name and parentheses containing parameters. Example: def my_function(param1, param2):">>,
                 <<"Functions">>, <<"easy">>),
            Card(<<"What are Python decorators and how are they used?">>,
                 <<"Decorators are functions that modify the behavior of other functions. They are denoted by the @ symbol and are placed above function definitions.">>,
                 <<"Advanced Concepts">>, <<"medium">>) >>
    ELSE << Card(F("What are the key concepts of ", topic, "?"),
                 F("This flashcard covers fundamental concepts in ", topic,
                   ". Study the main principles and applications."),
                 <<"Fundamentals">>, <<"easy">>),
            Card(F("How is ", topic, " applied in real-world scenarios?"),
                 F("", topic, " has various practical applications across different industries and use cases."),
                 <<"Applications">>, <<"medium">>) >>

create_fallback_study_guide(topic) ==
    [learning_objectives |->
        << F("Master fundamental concepts of ", topic, ""),
           F("Develop practical skills in ", topic, " application"),
           F("Understand advanced ", topic, " concepts and patterns"),
           F("Build real-world projects using ", topic, "") >>,
     key_concepts |->
        << <<"Basic syntax and structure">>, <<"Data types and variables">>,
           <<"Control flow and functions">>, <<"Object-oriented programming">>,
           <<"Error handling and debugging">> >>,
     practice_exercises |->
        << [title |-> "Basic Syntax Practice",
            description |-> "Write a simple program to demonstrate basic syntax",
            difficulty |-> "beginner"],
           [title |-> "Data Structures Implementation",
            description |-> "Create and manipulate common data structures",
            difficulty |-> "intermediate"],
           [title |-> "Project Building",
            description |-> "Build a complete application using core concepts",
            difficulty |-> "advanced"] >>,
     resources |->
        << [type |-> "documentation",
            title |-> F("Official ", topic, " Documentation"), url |-> "#"],
           [type |-> "tutorial",
            title |-> F("Complete ", topic, " Tutorial"), url |-> "#"] >>,
     study_schedule |->
        << [week |-> 1,
            topics |-> <<"Introduction", "Basic Syntax", "Variables">>,
            exercises |-> <<"Hello World", "Basic Calculator">>],
           [week |-> 2,
            topics |-> <<"Functions", "Control Flow", "Data Structures">>,
            exercises |-> <<"Function Practice", "Data Manipulation">>] >>]

-----------------------------------------------------------------------------
(* AIService: the generation entry points *)

\* what an entry point leaves: a returned value, or a fault it let through
Ok(v, c) == [ret |-> v, fault |-> "none", calls |-> c]

Raised(f) == [ret |-> <<>>, fault |-> f, calls |-> <<>>]

\* tasks_context of handle_regular_chat: one line per task
TasksContext(tasks) ==
    [i \in DOMAIN tasks |->
        [status |-> IF tasks[i].completed THEN "completed" ELSE "pending",
         title |-> tasks[i].task]]

\* response.get(k, "") of a text field
TextOf(response, k) == Get(response, k, <<>>)

handle_regular_chat(data, llm) ==
    IF data.message = None THEN Raised("TypeError")
    ELSE
    LET prompt_data ==
            [tasks_context |-> TasksContext(data.tasks),
             question |-> data.message,
             topic |-> data.topic,
             language |-> detect_language_from_topic(data.topic),
             chat_history |-> <<>>]
        r == run_chain("task_qa_prompt", prompt_data, llm)
    IN  IF r.ret = NONE
        THEN Ok([status |-> "error",
                 message |-> "Failed to process request: AI did not return valid JSON"],
                r.calls)
        ELSE
        LET response == r.ret[1]
            response_text ==
                IF TextOf(response, "answer") # <<>> THEN response.answer
                ELSE IF TextOf(response, "markdown") # <<>> THEN response.markdown
                ELSE IF TextOf(response, "text") # <<>> THEN response.text
                ELSE StrOfDict(response)
            processed == enhanced_process_ai_response(response_text)
            code_blocks == IF processed.code_blocks # <<>> THEN processed.code_blocks
                           ELSE Get(response, "code_blocks", <<>>)
        IN  Ok([status |-> "success",
                response |-> [text |-> response_text, type |-> "general",
                              search_used |-> FALSE, code_blocks |-> code_blocks]],
               r.calls \o <<[ev |-> "calculate_understanding_update"]>>)

SearchError ==
    [status |-> "error", message |-> "Failed to process search-enhanced request"]

\* the query of the search-enhanced path
SearchQuery(message, topic) ==
    LET lower == Lower(message)
    IN  IF Contains(lower, KW_trend) \/ Contains(lower, KW_current)
        THEN F("", topic, " current trends developments 2024")
        ELSE IF Contains(lower, KW_tool)
        THEN F("", topic, " tools libraries frameworks 2024")
        ELSE Str(topic) \o <<" ">> \o message \o <<" tutorial guide examples 2024">>

\* the resources found in a search result text
extract_resources_from_search(w) ==
    IF w = "entries"
    THEN <<[url |-> "https://web.example/resource", title |-> "Web resource"]>>
    ELSE <<>>

\* w is what the web search answers: "raise", "none" (a text without
\* links), "entries" (a text with links)
handle_search_enhanced_chat(data, w, llm) ==
    IF data.message = None THEN Ok(SearchError, <<>>)
    ELSE IF ~SearchHasRun THEN Ok(SearchError, <<>>)
    ELSE
    LET s == <<[ev |-> "search.run", query |-> SearchQuery(data.message, data.topic)]>>
        prompt_data ==
            [topic |-> data.topic,
             search_results |-> w,
             question |-> data.message,
             understanding |-> "{}",
             language |-> detect_language_from_topic(data.topic),
             chat_history |-> <<>>]
        r == run_chain("search_enhanced_prompt", prompt_data, llm)
    IN  IF w = "raise" THEN Ok(SearchError, s)
        ELSE IF r.ret = NONE THEN Ok(SearchError, s \o r.calls)
        ELSE
        LET response == r.ret[1]
            response_text == IF TextOf(response, "answer") # <<>> THEN response.answer
                             ELSE StrOfDict(response)
            processed == enhanced_process_ai_response(response_text)
        IN  Ok([status |-> "success",
                response |-> [text |-> processed.text, type |-> "search_enhanced",
                              resources |-> extract_resources_from_search(w),
                              search_used |-> TRUE,
                              code_blocks |-> processed.code_blocks]],
               s \o r.calls \o <<[ev |-> "calculate_understanding_update"]>>)

handle_ai_chat(data, w, llm) ==
    IF data.message = None THEN Raised("AttributeError")
    ELSE IF should_use_search(data.message)
    THEN handle_search_enhanced_chat(data, w, llm)
    ELSE handle_regular_chat(data, llm)

ask_about_task(data, llm) ==
    IF Falsy(data.question)
    THEN Ok([status |-> "error", message |-> "Missing question", code |-> 400], <<>>)
    ELSE
    LET prompt_data ==
            [tasks_context |-> <<"No tasks are currently defined.">>,
             question |-> data.question,
             topic |-> data.topic,
             language |-> detect_language_from_topic(data.topic),
             chat_history |-> <<>>]
        r == run_chain("chat_qa_prompt", prompt_data, llm)
    IN  IF r.ret = NONE
        THEN Ok([status |-> "error", message |-> "Failed to get AI response",
                 code |-> 500], r.calls)
        ELSE
        LET response == r.ret[1]
            answer_text == IF Has(response, "markdown") THEN response.markdown
                           ELSE IF Has(response, "text") THEN response.text
                           ELSE StrOfDict(response)
            processed == enhanced_process_ai_response(answer_text)
        IN  Ok([status |-> "success", answer |-> processed.text,
                bullets |-> Get(response, "bullets", <<>>),
                steps |-> Get(response, "steps", <<>>),
                bold |-> Get(response, "bold", <<>>),
                code_blocks |-> processed.code_blocks], r.calls)

\* a flashcards entry as the model wrote it: a JSON object v, or something else
DictItem(v) == [isdict |-> TRUE, v |-> v]

OtherItem == [isdict |-> FALSE, v |-> [x \in {} |-> x]]

generate_flashcards(data, llm) ==
    LET r == run_chain("flashcards_prompt",
                 [topic |-> data.topic, understanding |-> "{}",
                  language |-> detect_language_from_topic(data.topic)], llm)
    IN  IF ~NoResult(r.ret) /\ Has(r.ret[1], "flashcards")
        THEN
        LET cards == SelectSeq(r.ret[1].flashcards, LAMBDA c : c.isdict)
            validated ==
                [i \in DOMAIN cards |->
                    Card(Get(cards[i].v, "question", <<"No question provided">>),
                         Get(cards[i].v, "answer", <<"No answer provided">>),
                         Get(cards[i].v, "category", <<"General">>),
                         Get(cards[i].v, "difficulty", <<"medium">>))]
        IN  Ok([status |-> "success", flashcards |-> validated], r.calls)
        ELSE Ok([status |-> "success",
                 flashcards |-> create_fallback_flashcards(data.topic)], r.calls)

generate_study_guide(data, llm) ==
    LET r == run_chain("study_guide_prompt",
                 [topic |-> data.topic, understanding |-> "{}",
                  language |-> detect_language_from_topic(data.topic)], llm)
    IN  IF ~NoResult(r.ret)
        THEN Ok([status |-> "success", study_guide |-> r.ret[1]], r.calls)
        ELSE Ok([status |-> "success",
                 study_guide |-> create_fallback_study_guide(data.topic)], r.calls)

Categories == <<"videos", "articles", "practice", "tools">>

EmptyMaterials ==
    [videos |-> <<>>, articles |-> <<>>, practice |-> <<>>, tools |-> <<>>]

\* extract_videos_from_search, ..._articles_, ..._practice_, ..._tools_: the
\* entries of category c found in a search result text
extract_from_search(c, w) ==
    IF w = "entries"
    THEN <<[title |-> "Web " \o c, url |-> "https://web.example/" \o c]>>
    ELSE <<>>

\* web[c]: what the search for category c answers
fetch_current_materials_with_search(topic, web) ==
    IF ~SearchHasRun THEN [ret |-> EmptyMaterials, calls |-> <<>>]
    ELSE
    LET raising == {i \in DOMAIN Categories : web[Categories[i]] = "raise"}
        made == IF raising = {} THEN Len(Categories)
                ELSE CHOOSE i \in raising : \A j \in raising : i <= j
        s == [i \in 1..made |-> [ev |-> "search.run", category |-> Categories[i]]]
    IN  IF raising # {} THEN [ret |-> EmptyMaterials, calls |-> s]
        ELSE [ret |-> [videos   |-> extract_from_search("videos", web.videos),
                       articles |-> extract_from_search("articles", web.articles),
                       practice |-> extract_from_search("practice", web.practice),
                       tools    |-> extract_from_search("tools", web.tools)],
              calls |-> s]

\* materials.get(c, [])
Category(materials, c) == Get(materials, c, <<>>)

get_ai_generated_materials(topic, web, llm) ==
    LET r == run_chain("materials_prompt",
                 [topic |-> topic,
                  language |-> detect_language_from_topic(topic),
                  tasks_context |-> DEFAULT_TASKS_CONTEXT], llm)
        fallback == fetch_current_materials_with_search(topic, web)
    IN  IF NoResult(r.ret) THEN Ok(fallback.ret, r.calls \o fallback.calls)
        ELSE
        LET materials == r.ret[1]
            kept(c) == IF Category(materials, c) # <<>> THEN materials[c]
                       ELSE fallback.ret[c]
        IN  IF \E i \in DOMAIN Categories : Category(materials, Categories[i]) = <<>>
            THEN Ok([videos |-> kept("videos"), articles |-> kept("articles"),
                     practice |-> kept("practice"), tools |-> kept("tools")],
                    r.calls \o fallback.calls)
            ELSE Ok(materials, r.calls)

-----------------------------------------------------------------------------
(* Inputs of the generation entry points *)

Messages ==
    {M_concept, M_latest, M_trend, M_tool, M_howto, M_hi, M_personal, M_plain, None}

TaskLists == {<<>>, <<[task |-> "Read chapter 1", completed |-> FALSE]>>}

ChatRequests == [message : Messages, topic : OptTopics, tasks : TaskLists]

WebAnswers == {"raise", "none", "entries"}

\* the answers of the model: no answer, text without an object, text with an
\* object that does not parse, and each object of objs as text and as a dict
LLMAnswers(objs) ==
    {[kind |-> "raise"], [kind |-> "empty"], [kind |-> "prose"], [kind |-> "garbled"]}
        \cup {[kind |-> "json", obj |-> o] : o \in objs}
        \cup {[kind |-> "dict", obj |-> o] : o \in objs}

ChatObjects ==
    { [answer |-> <<Prose("Recursion is a function calling itself.")>>],
      [answer |-> <<Prose("Here is the code:"), Fenced("python", "print(1)")>>,
       key_points |-> <<"base case">>],
      [markdown |-> <<Prose("# Recursion"), Fenced("", "f(n - 1)")>>],
      [text |-> <<Prose("Plain text answer")>>, bullets |-> <<"one", "two">>],
      [steps |-> <<"first">>] }

FullCard ==
    [question |-> <<"What is a closure?">>, answer |-> <<"A function with its scope.">>,
     category |-> <<"Functions">>, difficulty |-> <<"hard">>]

FlashcardObjects ==
    { [flashcards |-> <<>>],
      [flashcards |-> <<DictItem(FullCard)>>],
      [flashcards |-> <<DictItem([question |-> <<"Only a question?">>]), OtherItem>>],
      [flashcards |-> <<OtherItem>>],
      [cards |-> <<DictItem(FullCard)>>] }

StudyGuideObjects ==
    { [learning_objectives |-> << <<"Know closures">> >>,
       key_concepts |-> << <<"Scope">> >>,
       practice_exercises |-> <<>>,
       resources |-> <<>>,
       study_schedule |-> <<>>],
      [learning_objectives |-> << <<"Know closures">> >>],
      [title |-> <<"A guide">>] }

LLMEntry(c) == <<[title |-> "LLM " \o c, url |-> "https://llm.example/" \o c]>>

FullMaterials ==
    [videos |-> LLMEntry("videos"), articles |-> LLMEntry("articles"),
     practice |-> LLMEntry("practice"), tools |-> LLMEntry("tools")]

MaterialObjects ==
    { FullMaterials,
      [FullMaterials EXCEPT !.videos = <<>>],
      [FullMaterials EXCEPT !.videos = <<>>, !.tools = <<>>],
      [articles |-> LLMEntry("articles"), practice |-> LLMEntry("practice"),
       tools |-> LLMEntry("tools")],
      EmptyMaterials }

WebResults == [videos : WebAnswers, articles : WebAnswers,
               practice : WebAnswers, tools : WebAnswers]

-----------------------------------------------------------------------------
(* The generation operations *)

\* the entry point has run to its end, with result r
Done(name, request, r) ==
    /\ op' = name
    /\ req' = request
    /\ ret' = r.ret
    /\ fault' = r.fault
    /\ calls' = r.calls
    /\ UNCHANGED <<threads, env, svc, vectors, nextId>>

HandleAiChat ==
    /\ Idle
    /\ \E data \in ChatRequests, w \in WebAnswers, llm \in LLMAnswers(ChatObjects) :
        Done("handle_ai_chat", [data |-> data, web |-> w, llm |-> llm],
             handle_ai_chat(data, w, llm))

HandleRegularChat ==
    /\ Idle
    /\ \E data \in ChatRequests, llm \in LLMAnswers(ChatObjects) :
        Done("handle_regular_chat", [data |-> data, llm |-> llm],
             handle_regular_chat(data, llm))

HandleSearchEnhancedChat ==
    /\ Idle
    /\ \E data \in ChatRequests, w \in WebAnswers, llm \in LLMAnswers(ChatObjects) :
        Done("handle_search_enhanced_chat", [data |-> data, web |-> w, llm |-> llm],
             handle_search_enhanced_chat(data, w, llm))

AskAboutTask ==
    /\ Idle
    /\ \E question \in {M_concept, M_howto, <<>>, None}, topic \in OptTopics,
          llm \in LLMAnswers(ChatObjects) :
        LET data == [question |-> question, topic |-> topic]
        IN  Done("ask_about_task", [data |-> data, llm |-> llm],
                 ask_about_task(data, llm))

GenerateFlashcards ==
    /\ Idle
    /\ \E topic \in OptTopics, llm \in LLMAnswers(FlashcardObjects) :
        LET data == [topic |-> topic]
        IN  Done("generate_flashcards", [data |-> data, llm |-> llm],
                 generate_flashcards(data, llm))

GenerateStudyGuide ==
    /\ Idle
    /\ \E topic \in OptTopics, llm \in LLMAnswers(StudyGuideObjects) :
        LET data == [topic |-> topic]
        IN  Done("generate_study_guide", [data |-> data, llm |-> llm],
                 generate_study_guide(data, llm))

GetAiGeneratedMaterials ==
    /\ Idle
    /\ \E topic \in OptTopics, web \in WebResults, llm \in LLMAnswers(MaterialObjects) :
        Done("get_ai_generated_materials", [topic |-> topic, web |-> web, llm |-> llm],
             get_ai_generated_materials(topic, web, llm))

GenNext ==
    \/ HandleAiChat
    \/ HandleRegularChat
    \/ HandleSearchEnhancedChat
    \/ AskAboutTask
    \/ GenerateFlashcards
    \/ GenerateStudyGuide
    \/ GetAiGeneratedMaterials
    \/ Return

GenSpec == Init /\ [][GenNext]_vars


-----------------------------------------------------------------------------
(* ai_helpers.search, and the helpers as operations of their own *)

\* what search_tool.invoke answers: an exception, a list of results (dicts
\* or not), a text, or another object
SearchToolAnswers ==
    { [kind |-> "raise", error |-> "timed out"],
      [kind |-> "list", items |-> <<>>],
      [kind |-> "list", items |->
          <<DictItem([title |-> "Hooks", snippet |-> "A guide to hooks"]),
            DictItem([title |-> "Untitled"]), OtherItem>>],
      [kind |-> "str", text |-> <<"Hooks: https://web.example/hooks">>],
      [kind |-> "str", text |-> <<>>],
      [kind |-> "other"] }

\* the text search returns, in pieces
search(results) ==
    CASE results.kind = "raise" -> <<"Search failed: ", results.error>>
      [] results.kind = "list" ->
           Flatten([i \in DOMAIN results.items |->
               (IF i > 1 THEN <<"\n\n">> ELSE <<>>) \o
               (IF results.items[i].isdict
                THEN <<Get(results.items[i].v, "title", "No title"), ": ",
                       Get(results.items[i].v, "snippet", "No description")>>
                ELSE <<"str(result)">>)])
      [] results.kind = "str" -> results.text
      [] OTHER -> <<"str(results)">>

Prompts ==
    {"chat_qa_prompt", "task_qa_prompt", "flashcards_prompt", "study_guide_prompt",
     "materials_prompt", "search_enhanced_prompt"}

\* a payload with every variable of every prompt but language and
\* tasks_context
FullPayload ==
    [chat_history |-> <<>>, memory_context |-> <<>>, topic |-> T_react,
     is_code_request |-> FALSE, question |-> M_concept, understanding |-> "{}",
     search_results |-> <<>>]

\* what a caller may hand to run_chain as data: None, a str, a number, {},
\* a dict, a list of pairs
Payloads ==
    { [kind |-> "none"], [kind |-> "str"], [kind |-> "int"], [kind |-> "empty"],
      [kind |-> "pairs", d |-> [topic |-> T_python]],
      [kind |-> "dict", d |-> [topic |-> T_python]],
      [kind |-> "dict", d |-> [Topic |-> T_react]],
      [kind |-> "dict", d |-> [topic |-> <<"int">>]],
      [kind |-> "dict", d |-> [topic |-> <<"int">>, language |-> "go"]],
      [kind |-> "dict", d |-> [topic |-> T_python, language |-> "go",
                               tasks_context |-> <<"Read chapter 1">>]],
      [kind |-> "dict", d |-> FullPayload],
      [kind |-> "dict", d |-> [x \in DOMAIN FullPayload \cup {"language"} |->
                                  IF x = "language" THEN "go" ELSE FullPayload[x]]] }

\* what the chain answers run_chain
ChainAnswers ==
    { [kind |-> "raise"], [kind |-> "dict", obj |-> [answer |-> <<Prose("An answer")>>]] }
        \cup { [kind |-> "text", text |-> t] : t \in ChainTexts }

\* the helper has run to its end
Helped(name, request, r, c) ==
    /\ op' = name
    /\ req' = request
    /\ ret' = r
    /\ fault' = "none"
    /\ calls' = c
    /\ UNCHANGED <<threads, env, svc, vectors, nextId>>

ExtractJsonFromText ==
    /\ Idle
    /\ \E r \in ExtractRequests :
        Helped("extract_json_from_text", r, ExtractTable[r.text], <<>>)

\* run_chain for an answer text that is spelled out
run_chain_on_text(prompt, data, llm) ==
    ChainOutcome(prompt, data, llm, ExtractTable[llm.text])

RunChain ==
    /\ Idle
    /\ \E prompt \in Prompts, data \in Payloads, llm \in ChainAnswers :
        LET r == IF llm.kind = "text"
                 THEN run_chain_on_text(prompt, SanitizeData(data), llm)
                 ELSE run_chain(prompt, SanitizeData(data), llm)
        IN  Helped("run_chain", [prompt |-> prompt, data |-> data, llm |-> llm],
                   r.ret, r.calls)

Search ==
    /\ Idle
    /\ \E query \in {T_python, M_latest}, results \in SearchToolAnswers :
        Helped("search", [query |-> query, results |-> results], search(results),
               <<[ev |-> "search_tool.invoke", query |-> query]>>)

-----------------------------------------------------------------------------
(* AIService.calculate_understanding_update and its two analyses *)

\* the words of s.split()
SplitWords(s) ==
    LET starts == {i \in DOMAIN s : ~IsSpace(s[i]) /\ (i = 1 \/ IsSpace(s[i - 1]))}
        ends   == {i \in DOMAIN s : ~IsSpace(s[i]) /\ (i = Len(s) \/ IsSpace(s[i + 1]))}
        EndOf(i) == CHOOSE e \in ends : e >= i /\ \A k \in ends : k >= i => e <= k
    IN  {SubSeq(s, i, EndOf(i)) : i \in starts}

complex_indicators ==
    { <<"h","o","w"," ","d","o","e","s">>, <<"w","h","y"," ","d","o","e","s">>, <<"e","x","p","l","a","i","n">>, <<"c","o","m","p","a","r","e">>,
      <<"d","i","f","f","e","r","e","n","c","e"," ","b","e","t","w","e","e","n">>, <<"i","m","p","l","e","m","e","n","t">>, <<"o","p","t","i","m","i","z","e">>,
      <<"a","r","c","h","i","t","e","c","t","u","r","e">>, <<"b","e","s","t"," ","p","r","a","c","t","i","c","e">>, <<"a","d","v","a","n","c","e","d">> }

technical_terms ==
    { <<"f","u","n","c","t","i","o","n">>, <<"v","a","r","i","a","b","l","e">>, <<"c","l","a","s","s">>, <<"o","b","j","e","c","t">>, <<"m","e","t","h","o","d">>,
      <<"a","l","g","o","r","i","t","h","m">>, <<"f","r","a","m","e","w","o","r","k">>, <<"l","i","b","r","a","r","y">>, <<"a","p","i">>, <<"d","a","t","a","b","a","s","e">>,
      <<"s","y","n","t","a","x">>, <<"c","o","m","p","i","l","e","r">>, <<"d","e","b","u","g">>, <<"d","e","p","l","o","y">>, <<"o","p","t","i","m","i","z","e">> }

\* the opening of a code fence
FENCE == <<BACKQUOTE, BACKQUOTE, BACKQUOTE>>

analyze_conversation_complexity(user_message, ai_response) ==
    LET user_words == WordCount(user_message)
        ai_words   == WordCount(ai_response)
        score ==
            (IF user_words > 20 THEN 2 ELSE 0)
          + (IF ai_words > 100 THEN 3 ELSE 0)
          + 2 * Cardinality({k \in complex_indicators :
                                 Contains(Lower(user_message), k)})
          + (IF Contains(ai_response, FENCE) THEN 3 ELSE 0)
    IN  Min(score, 5)

\* the set extract_key_concepts collects before it cuts it to ten
KeyConcepts(text, main_topic) ==
    {Lower(Str(main_topic))}
        \cup {w \in SplitWords(Lower(text)) : Len(w) > 4 /\ w \in technical_terms}

\* list(concepts)[:10]: the set has no order, so any ten of its members
extract_key_concepts(text, main_topic) ==
    LET concepts == KeyConcepts(text, main_topic)
    IN  {P \in SUBSET concepts : Cardinality(P) = Min(Cardinality(concepts), 10)}

\* n words
WordsOf(n) == Flatten([i \in 1..n |-> <<"w"," ">>])

UserMessages ==
    { M_hi,
      <<"e","x","p","l","a","i","n"," ","h","o","w"," ","r","e","c","u","r","s","i","o","n"," ","w","o","r","k","s"," ","i","n"," ","d","e","p","t","h"," ","w","i","t","h"," ","e","x","a","m","p","l","e","s">>,
      <<"h","o","w"," ","d","o","e","s"," ","a"," ","f","u","n","c","t","i","o","n"," ","v","a","r","i","a","b","l","e"," ","c","l","a","s","s"," ","o","b","j","e","c","t"," ","m","e","t","h","o","d"," ","a","l","g","o","r","i","t","h","m"," ","f","r","a","m","e","w","o","r","k"," ","l","i","b","r","a","r","y"," ","d","a","t","a","b","a","s","e"," ","s","y","n","t","a","x"," ","w","o","r","k"," ","w","h","e","n"," ","i"," ","r","u","n"," ","a","n","d"," ","s","h","i","p"," ","i","t"," ","a","l","l"," ","t","o","d","a","y"," ","o","k">> }

AiResponses ==
    { <<"o","k">>, WordsOf(100), WordsOf(101), <<BACKQUOTE,BACKQUOTE,BACKQUOTE,"p","y","t","h","o","n","\n","x"," ","="," ","1","\n",BACKQUOTE,BACKQUOTE,BACKQUOTE>> }

UnderstandingTopics == {T_python, <<"P","y","t","h","o","n">>, <<"r","e","c","u","r","s","i","o","n">>, None}

\* the maps a user can have: levels in 0..100 under lowercase concepts
UnderstandingMaps ==
    { EmptyDict,
      T_python :> 95,
      T_python :> 100 @@ <<"r","e","c","u","r","s","i","o","n">> :> 0 @@ <<"f","u","n","c","t","i","o","n">> :> 97 }

\* the two analyses of the conversations above, computed once
ComplexityTable ==
    [user_message \in UserMessages, ai_response \in AiResponses |->
        analyze_conversation_complexity(user_message, ai_response)]

ConceptsTable ==
    [user_message \in UserMessages, ai_response \in AiResponses,
     topic \in UnderstandingTopics |->
        extract_key_concepts(user_message \o <<" ">> \o ai_response, topic)]

\* concepts is the list extract_key_concepts returned
calculate_understanding_update(user_message, ai_response, current_understanding, topic, concepts) ==
    LET complexity_score == ComplexityTable[user_message, ai_response]
        improvement == Min(complexity_score * 2, 10)
        updated ==
            [k \in DOMAIN current_understanding \cup concepts |->
                IF k \in concepts
                THEN Min(Get(current_understanding, k, 0) + improvement, 100)
                ELSE current_understanding[k]]
    IN  IF topic \notin DOMAIN updated
        THEN [k \in DOMAIN updated \cup {topic} |->
                 IF k = topic THEN 10 ELSE updated[k]]
        ELSE updated

\* the two analyses as calculate_understanding_update called them
UnderstandingCalls(user_message, ai_response, concepts) ==
    << [ev |-> "analyze_conversation_complexity",
        ret |-> ComplexityTable[user_message, ai_response]],
       [ev |-> "extract_key_concepts", ret |-> concepts] >>

CalculateUnderstandingUpdate ==
    /\ Idle
    /\ \E user_message \in UserMessages, ai_response \in AiResponses,
          current \in UnderstandingMaps, topic \in UnderstandingTopics :
        \E concepts \in ConceptsTable[user_message, ai_response, topic] :
            Helped("calculate_understanding_update",
                   [user_message |-> user_message, ai_response |-> ai_response,
                    current_understanding |-> current, topic |-> topic, n |-> 1],
                   calculate_understanding_update(user_message, ai_response,
                                                  current, topic, concepts),
                   UnderstandingCalls(user_message, ai_response, concepts))

\* the next turn of the same conversation: the map returned is the map
\* passed in
UpdateAgain ==
    /\ op = "calculate_understanding_update"
    /\ req.n < MaxUpdates
    /\ \E concepts \in ConceptsTable[req.user_message, req.ai_response, req.topic] :
            Helped("calculate_understanding_update",
                   [req EXCEPT !.current_understanding = ret, !.n = @ + 1],
                   calculate_understanding_update(req.user_message, req.ai_response,
                                                  ret, req.topic, concepts),
                   UnderstandingCalls(req.user_message, req.ai_response, concepts))

-----------------------------------------------------------------------------
(* HFLocalEmbeddings.embed and embed_texts (app/utils/huggingface_service.py) *)

\* A value the caller passes or response.json() returns, with its Python
\* type: a str is a sequence of characters, a list a sequence of values, a
\* dict a sequence of <<key, value>> pairs, and a number stands for itself.
JNull == [t |-> "NoneType"]

JBool(b) == [t |-> "bool", b |-> b]

JInt(n) == [t |-> "int", n |-> n]

JFloat(x) == [t |-> "float", x |-> x]

JStr(s) == [t |-> "str", s |-> s]

JList(items) == [t |-> "list", items |-> items]

JDict(pairs) == [t |-> "dict", pairs |-> pairs]

\* bool(x)
Truthy(x) ==
    CASE x.t = "NoneType" -> FALSE
      [] x.t = "bool" -> x.b
      [] x.t = "int" -> x.n # 0
      [] x.t = "float" -> x.x # 0
      [] x.t = "str" -> x.s # <<>>
      [] x.t = "list" -> x.items # <<>>
      [] x.t = "dict" -> x.pairs # <<>>

\* isinstance(x, (int, float))
IsNumber(x) == x.t \in {"int", "float", "bool"}

\* `key in data` and data[key] for a dict
HasKey(data, key) == \E i \in DOMAIN data.pairs : data.pairs[i][1] = key

Item(data, key) ==
    data.pairs[CHOOSE i \in DOMAIN data.pairs : data.pairs[i][1] = key][2]

\* the outcome of evaluating an expression: a value, or an exception
Value(val) == [exc |-> "none", val |-> val]

Throws(exc) == [exc |-> exc, val |-> <<>>]

DigitChars == <<"0", "1", "2", "3", "4", "5", "6", "7", "8", "9">>

\* the number a sequence of digits denotes
RECURSIVE NumberOf(_)
NumberOf(s) ==
    IF s = <<>> THEN 0
    ELSE 10 * NumberOf(SubSeq(s, 1, Len(s) - 1))
           + (CHOOSE n \in 0..9 : DigitChars[n + 1] = s[Len(s)])

\* float(x); of a str, for the strings of the model: digits or no number
ToFloat(x) ==
    CASE x.t = "float" -> Value(x)
      [] x.t = "int" -> Value(JFloat(x.n))
      [] x.t = "bool" -> Value(JFloat(IF x.b THEN 1 ELSE 0))
      [] x.t = "str" ->
           IF x.s # <<>> /\ \A i \in DOMAIN x.s : x.s[i] \in DIGITS
           THEN Value(JFloat(NumberOf(x.s))) ELSE Throws("ValueError")
      [] OTHER -> Throws("TypeError")

\* iter(x): the values a for loop over x visits (a key of a dict is kept
\* in one piece: the keys of the model are no numbers)
Iterate(x) ==
    CASE x.t = "list" -> Value(x.items)
      [] x.t = "str" -> Value([i \in DOMAIN x.s |-> JStr(<<x.s[i]>>)])
      [] x.t = "dict" -> Value([i \in DOMAIN x.pairs |-> JStr(<<x.pairs[i][1]>>)])
      [] OTHER -> Throws("TypeError")

\* [float(v) for v in embedding]
ToFloats(embedding) ==
    LET it == Iterate(embedding)
    IN  IF it.exc # "none" THEN it
        ELSE LET fs == [i \in DOMAIN it.val |-> ToFloat(it.val[i])]
                 bad == {i \in DOMAIN fs : fs[i].exc # "none"}
             IN  IF bad # {}
                 THEN Throws(fs[CHOOSE i \in bad : \A j \in bad : i <= j].exc)
                 ELSE Value([i \in DOMAIN fs |-> fs[i].val])

\* x[0]
First(x) ==
    CASE x.t = "list" ->
           IF x.items = <<>> THEN Throws("IndexError") ELSE Value(x.items[1])
      [] x.t = "str" ->
           IF x.s = <<>> THEN Throws("IndexError") ELSE Value(JStr(<<x.s[1]>>))
      [] x.t = "dict" -> Throws("KeyError")
      [] OTHER -> Throws("TypeError")

\* len(x) > 0
NonEmpty(x) ==
    CASE x.t = "list" -> Value(x.items # <<>>)
      [] x.t = "str" -> Value(x.s # <<>>)
      [] x.t = "dict" -> Value(x.pairs # <<>>)
      [] OTHER -> Throws("TypeError")

\* `key in data and data[key] and len(data[key]) > 0`
NonEmptyAt(data, key) ==
    IF ~HasKey(data, key) \/ ~Truthy(Item(data, key)) THEN Value(FALSE)
    ELSE NonEmpty(Item(data, key))

\* `key in data and data[key]`
TruthyAt(data, key) == HasKey(data, key) /\ Truthy(Item(data, key))

\* embed's choice of the embedding in the response: Value(Some(embedding)),
\* Value(NONE) where embed returns [], or the exception raised on the way
SelectEmbedding(data) ==
    IF data.t = "list" /\ Len(data.items) > 0
    THEN IF data.items[1].t = "list" THEN Value(Some(data.items[1]))
         ELSE IF IsNumber(data.items[1]) THEN Value(Some(data))
         ELSE Value(NONE)
    ELSE IF data.t = "dict"
    THEN LET g1 == NonEmptyAt(data, "embeddings")
             g3 == NonEmptyAt(data, "vectors")
             Take(x) == IF First(x).exc = "none" THEN Value(Some(First(x).val))
                        ELSE First(x)
         IN  IF g1.exc # "none" THEN g1
             ELSE IF g1.val THEN Take(Item(data, "embeddings"))
             ELSE IF TruthyAt(data, "embedding") THEN Value(Some(Item(data, "embedding")))
             ELSE IF g3.exc # "none" THEN g3
             ELSE IF g3.val THEN Take(Item(data, "vectors"))
             ELSE IF TruthyAt(data, "vector") THEN Value(Some(Item(data, "vector")))
             ELSE Value(NONE)
    ELSE Value(NONE)

MAX_TEXT == 10000

\* text[:10000]
Truncated(s) == IF Len(s) > MAX_TEXT THEN SubSeq(s, 1, MAX_TEXT) ELSE s

\* an except clause list that names the requests exceptions only
Handled_requests_only(exc) ==
    exc \in {"Timeout", "ConnectionError", "JSONDecodeError"}

\* the except clauses of embed and embed_texts: Timeout, RequestException,
\* Exception
Handled(exc) ==
    \/ exc = "Timeout"
    \/ exc \in {"ConnectionError", "JSONDecodeError"}
    \/ exc \in {"TypeError", "ValueError", "KeyError", "IndexError", "RuntimeError"}

\* `response.status_code != 200`
StatusOk(status) == status = 200

\* what the try block of embed comes to, given the answer of session.post
EmbedBody(answer) ==
    IF answer.kind # "response" THEN Throws(answer.kind)
    ELSE IF ~StatusOk(answer.status) THEN Value(<<>>)
    ELSE IF answer.body = "malformed" THEN Throws("JSONDecodeError")
    ELSE LET sel == SelectEmbedding(answer.data)
         IN  IF sel.exc # "none" THEN sel
             ELSE IF sel.val = NONE THEN Value(<<>>)
             ELSE ToFloats(sel.val[1])

\* returns the vector, the exception let out and the requests sent
embed(text, answer) ==
    IF text.t # "str" \/ ~Truthy(text)
    THEN [ret |-> <<>>, fault |-> "none", calls |-> <<>>]
    ELSE LET post == [ev |-> "session.post", texts |-> <<Truncated(text.s)>>]
             r    == EmbedBody(answer)
         IN  IF r.exc = "none"
             THEN [ret |-> r.val, fault |-> "none", calls |-> <<post>>]
             ELSE IF Handled(r.exc)
             THEN [ret |-> <<>>, fault |-> "none", calls |-> <<post>>]
             ELSE [ret |-> <<>>, fault |-> r.exc, calls |-> <<post>>]

\* the vector the embedding service computes for a text
Embedding(s) == <<JFloat(Len(s)), JFloat(1)>>

\* a vector of n components
Vector(n) == [i \in 1..n |-> JFloat(i)]

EmbedInputs == {JStr(<<"h","e","l","l","o">>), JStr(<<>>), JNull, JInt(5), JList(<<>>)}

Pair(key, val) == <<key, val>>

\* the bodies the endpoint may answer one text with
EmbedBodies ==
    { JList(<<JList(Embedding(<<"h","e","l","l","o">>))>>),
      JList(Embedding(<<"h","e","l","l","o">>)),
      JList(<<JList(Vector(12))>>),
      JList(<<>>),
      JList(<<JList(<<>>)>>),
      JList(<<JStr(<<"e","r","r","o","r">>)>>),
      JList(<<JList(<<JFloat(1), JList(<<JFloat(2)>>)>>)>>),
      JList(<<JList(<<JInt(1), JStr(<<"x">>)>>)>>),
      JList(<<JList(<<JInt(1), JStr(<<"2","5">>), JBool(TRUE)>>)>>),
      JList(<<JList(<<JFloat(1), JNull>>)>>),
      JDict(<<Pair("embeddings", JList(<<JList(Embedding(<<"h","e","l","l","o">>))>>))>>),
      JDict(<<Pair("embedding", JList(Embedding(<<"h","e","l","l","o">>)))>>),
      JDict(<<Pair("vectors", JList(<<JList(Embedding(<<"h","e","l","l","o">>))>>))>>),
      JDict(<<Pair("vector", JList(Embedding(<<"h","e","l","l","o">>)))>>),
      JDict(<<Pair("embeddings", JList(<<>>)),
              Pair("embedding", JList(Embedding(<<"h","e","l","l","o">>)))>>),
      JDict(<<Pair("embeddings", JInt(5))>>),
      JDict(<<Pair("embeddings", JDict(<<Pair("a", JInt(1))>>))>>),
      JDict(<<Pair("embedding", JStr(<<"1","2">>))>>),
      JDict(<<Pair("embedding", JStr(<<"n","o","n","e">>))>>),
      JDict(<<Pair("embedding", JInt(7))>>),
      JDict(<<Pair("embedding", JDict(<<Pair("a", JInt(1))>>))>>),
      JDict(<<Pair("vector", JNull), Pair("detail", JStr(<<"b","u","s","y">>))>>),
      JDict(<<>>),
      JStr(<<"o","k">>), JInt(0), JNull }

Response(status, data) ==
    [kind |-> "response", status |-> status, body |-> "json", data |-> data]

Failure(kind) == [kind |-> kind, status |-> 0, body |-> "none", data |-> JNull]

\* what session.post and response.json() may do
EmbedResponses ==
    {Response(200, d) : d \in EmbedBodies}
        \cup {Response(s, JList(<<JList(Embedding(<<"h","e","l","l","o">>))>>)) : s \in {201, 404, 500, 503}}
        \cup {[kind |-> "response", status |-> 200, body |-> "malformed", data |-> JNull]}
        \cup {Failure(k) : k \in {"Timeout", "ConnectionError", "RuntimeError"}}

Embed ==
    /\ Idle
    /\ \E text \in EmbedInputs, answer \in EmbedResponses :
        LET r == embed(text, answer)
        IN  /\ op' = "embed"
            /\ req' = [text |-> text, answer |-> answer]
            /\ ret' = r.ret
            /\ fault' = r.fault
            /\ calls' = r.calls
            /\ UNCHANGED <<threads, env, svc, vectors, nextId>>

\* the texts embed_texts sends: the non-empty strings, cut to 10000
CleanTexts(texts) ==
    LET kept == SelectSeq(texts, LAMBDA x : Truthy(x) /\ x.t = "str")
    IN  [i \in DOMAIN kept |-> Truncated(kept[i].s)]

\* embed_texts' choice of the embeddings in the response, as SelectEmbedding
SelectEmbeddings(data) ==
    IF data.t = "list"
    THEN IF Len(data.items) > 0 /\ data.items[1].t = "list" THEN Value(Some(data))
         ELSE IF Len(data.items) > 0 /\ IsNumber(data.items[1])
         THEN Value(Some(JList(<<data>>)))
         ELSE Value(NONE)
    ELSE IF data.t = "dict"
    THEN IF HasKey(data, "embeddings") THEN Value(Some(Item(data, "embeddings")))
         ELSE IF HasKey(data, "vectors") THEN Value(Some(Item(data, "vectors")))
         ELSE LET found == {i \in DOMAIN data.pairs :
                               /\ data.pairs[i][2].t = "list"
                               /\ data.pairs[i][2].items # <<>>
                               /\ data.pairs[i][2].items[1].t = "list"}
              IN  IF found = {} THEN Value(NONE)
                  ELSE Value(Some(data.pairs[CHOOSE i \in found :
                                                \A j \in found : i <= j][2]))
    ELSE Value(NONE)

\* result.append([float(v) for v in emb]) for emb in embeddings
ToFloatLists(embeddings) ==
    LET it == Iterate(embeddings)
    IN  IF it.exc # "none" THEN it
        ELSE LET fs == [i \in DOMAIN it.val |-> ToFloats(it.val[i])]
                 bad == {i \in DOMAIN fs : fs[i].exc # "none"}
             IN  IF bad # {}
                 THEN Throws(fs[CHOOSE i \in bad : \A j \in bad : i <= j].exc)
                 ELSE Value([i \in DOMAIN fs |-> fs[i].val])

EmbedTextsBody(answer) ==
    IF answer.kind # "response" THEN Throws(answer.kind)
    ELSE IF ~StatusOk(answer.status) THEN Value(<<>>)
    ELSE IF answer.body = "malformed" THEN Throws("JSONDecodeError")
    ELSE LET sel == SelectEmbeddings(answer.data)
         IN  IF sel.exc # "none" THEN sel
             ELSE IF sel.val = NONE THEN Value(<<>>)
             ELSE ToFloatLists(sel.val[1])

\* answer[sent] is what the endpoint does with the texts sent
embed_texts(texts, answer) ==
    LET clean_texts == CleanTexts(texts)
        post == [ev |-> "session.post", texts |-> clean_texts]
        r    == EmbedTextsBody(answer[clean_texts])
    IN  IF texts = <<>> \/ clean_texts = <<>>
        THEN [ret |-> <<>>, fault |-> "none", calls |-> <<>>]
        ELSE IF r.exc = "none"
        THEN [ret |-> r.val, fault |-> "none", calls |-> <<post>>]
        ELSE IF Handled(r.exc)
        THEN [ret |-> <<>>, fault |-> "none", calls |-> <<post>>]
        ELSE [ret |-> <<>>, fault |-> r.exc, calls |-> <<post>>]

\* the embeddings of the texts sent, one list per text, in order
Embeddings(sent) == JList([i \in DOMAIN sent |-> JList(Embedding(sent[i]))])

BatchKinds ==
    {"list", "embeddings", "vectors", "data", "flat", "bad_value", "no_list",
     "status_500", "malformed", "Timeout", "ConnectionError"}

\* what the endpoint answers a batch with
BatchAnswer(kind, sent) ==
    CASE kind = "list" -> Response(200, Embeddings(sent))
      [] kind = "embeddings" ->
           Response(200, JDict(<<Pair("embeddings", Embeddings(sent))>>))
      [] kind = "vectors" ->
           Response(200, JDict(<<Pair("model", JStr(<<"m","i","n","i","l","m">>)),
                                 Pair("vectors", Embeddings(sent))>>))
      [] kind = "data" ->
           Response(200, JDict(<<Pair("count", JInt(Len(sent))),
                                 Pair("data", Embeddings(sent))>>))
      [] kind = "flat" -> Response(200, JList(Embedding(sent[1])))
      [] kind = "bad_value" ->
           Response(200, JList(Embeddings(sent).items \o <<JList(<<JNull>>)>>))
      [] kind = "no_list" -> Response(200, JDict(<<Pair("detail", JStr(<<"b","u","s","y">>))>>))
      [] kind = "status_500" -> Response(500, Embeddings(sent))
      [] kind = "malformed" ->
           [kind |-> "response", status |-> 200, body |-> "malformed", data |-> JNull]
      [] OTHER -> Failure(kind)

TextLists ==
    { <<>>, <<JStr(<<"h","e","l","l","o">>)>>, <<JStr(<<"h","e","l","l","o">>), JStr(<<"h","i">>)>>,
      <<JStr(<<"h","e","l","l","o">>), JStr(<<>>), JStr(<<"h","i">>)>>,
      <<JStr(<<"h","e","l","l","o">>), JNull, JStr(<<"h","i">>)>>,
      <<JStr(<<>>)>>, <<JInt(5), JStr(<<"h","e","l","l","o">>)>> }

EmbedTexts ==
    /\ Idle
    /\ \E texts \in TextLists, kind \in BatchKinds :
        LET r == embed_texts(texts, [sent \in {CleanTexts(texts)} |->
                                       BatchAnswer(kind, sent)])
        IN  /\ op' = "embed_texts"
            /\ req' = [texts |-> texts, kind |-> kind]
            /\ ret' = r.ret
            /\ fault' = r.fault
            /\ calls' = r.calls
            /\ UNCHANGED <<threads, env, svc, vectors, nextId>>

-----------------------------------------------------------------------------
(* ai_helpers.process_ai_response and enhanced_process_ai_response, on the *)
(* characters of the text                                                  *)

\* \w
IsWordChar(c) == IsTagChar(c) /\ c # "-"

\* str(n) for n >= 0
RECURSIVE IntStr(_)
IntStr(n) ==
    IF n < 10 THEN <<DigitChars[n + 1]>>
    ELSE IntStr(n \div 10) \o <<DigitChars[(n % 10) + 1]>>

\* old occurs in s at position i
OccursAt(s, old, i) ==
    i + Len(old) - 1 <= Len(s) /\ SubSeq(s, i, i + Len(old) - 1) = old

\* the match of the code block pattern that starts at i, if there is one:
\* a fence, the word characters after it, a newline, and the shortest text
\* up to a fence
CodeBlockAt(s, i) ==
    IF ~OccursAt(s, FENCE, i) THEN NONE
    ELSE LET nonword == {j \in (i + 3)..Len(s) : ~IsWordChar(s[j])}
             nl      == IF nonword = {} THEN Len(s) + 1 ELSE Least(nonword)
             closes  == {j \in (nl + 1)..Len(s) : OccursAt(s, FENCE, j)}
         IN  IF nl > Len(s) \/ s[nl] # "\n" \/ closes = {} THEN NONE
             ELSE Some([language |-> SubSeq(s, i + 3, nl - 1),
                        body |-> SubSeq(s, nl + 1, Least(closes) - 1),
                        stop |-> Least(closes) + 2])

\* f"CODE_BLOCK_{len(code_blocks)}"
BlockId(n) == <<"C","O","D","E","_","B","L","O","C","K","_">> \o IntStr(n)

\* extract_code: the block a match adds to code_blocks
ExtractCode(match, n) ==
    [id |-> BlockId(n),
     language |-> IF match.language = <<>> THEN <<"t","e","x","t">> ELSE match.language,
     code |-> Strip(match.body)]

\* re.sub(code_block_regex, extract_code, raw_text) from position i on, with
\* the text and the blocks collected so far: the text up to the next match
\* stays, the match becomes its placeholder
RECURSIVE SubstituteBlocks(_, _, _, _)
SubstituteBlocks(s, i, text, code_blocks) ==
    LET starts == {j \in i..Len(s) : CodeBlockAt(s, j) # NONE}
    IN  IF starts = {}
        THEN [text |-> text \o SubSeq(s, i, Len(s)), code_blocks |-> code_blocks]
        ELSE LET at    == Least(starts)
                 match == CodeBlockAt(s, at)[1]
             IN  SubstituteBlocks(s, match.stop + 1,
                      text \o SubSeq(s, i, at - 1) \o <<"\n", "\n">>
                           \o BlockId(Len(code_blocks)) \o <<"\n", "\n">>,
                      Append(code_blocks, ExtractCode(match, Len(code_blocks))))

\* s.replace(old, new), from position i on
RECURSIVE Replace(_, _, _, _)
Replace(s, old, new, i) ==
    LET found == {j \in i..Len(s) : OccursAt(s, old, j)}
    IN  IF found = {} THEN SubSeq(s, i, Len(s))
        ELSE SubSeq(s, i, Least(found) - 1) \o new
                 \o Replace(s, old, new, Least(found) + Len(old))

\* f"```{block['language']}\n{block['code']}\n```"
FencedBlock(block) ==
    FENCE \o block.language \o <<"\n">> \o block.code \o <<"\n">> \o FENCE

\* the loop that puts the blocks back, from block k on
RECURSIVE ReplaceBlocks(_, _, _)
ReplaceBlocks(text, code_blocks, k) ==
    IF k > Len(code_blocks) THEN text
    ELSE ReplaceBlocks(Replace(text, code_blocks[k].id, FencedBlock(code_blocks[k]), 1),
                       code_blocks, k + 1)

\* re.search(code_block_regex, raw_text)
HasCodeBlock(s) == \E i \in DOMAIN s : CodeBlockAt(s, i) # NONE

\* enhanced_process_ai_response on the characters of raw_text
EnhancedProcess(raw_text) ==
    IF raw_text = <<>> THEN [text |-> <<>>, code_blocks |-> <<>>]
    ELSE LET sub == SubstituteBlocks(raw_text, 1, <<>>, <<>>)
         IN  [text |-> Strip(ReplaceBlocks(sub.text, sub.code_blocks, 1)),
              code_blocks |-> sub.code_blocks]

process_ai_response(raw_text) ==
    IF raw_text = <<>> THEN [text |-> <<>>, code_blocks |-> <<>>]
    ELSE IF ~HasCodeBlock(raw_text) THEN [text |-> raw_text, code_blocks |-> <<>>]
    ELSE EnhancedProcess(raw_text)

\* the k-th code block of a document and the prose before it
DocBlock(k, lang) ==
    [prose |-> <<"S","t","e","p"," ">> \o IntStr(k) \o <<":"," ">>,
     language |-> lang, code |-> <<"r","u","n">> \o IntStr(k) \o <<"(",")">>]

\* a document of n blocks, each under the language lang ("" for none)
DocOf(n, lang, tail) == [blocks |-> [k \in 1..n |-> DocBlock(k, lang)], tail |-> tail]

BlockCounts == {0, 1, 2, 10, 11, 12}

Documents ==
    {DocOf(n, lang, tail) : n \in BlockCounts, lang \in {<<>>, <<"p","y","t","h","o","n">>},
                            tail \in {<<>>, <<" ","D","o","n","e",".">>}}

\* the text of a document as the model writes it
RawText(doc) ==
    Flatten([k \in DOMAIN doc.blocks |->
                doc.blocks[k].prose \o FENCE \o doc.blocks[k].language \o <<"\n">>
                    \o doc.blocks[k].code \o <<"\n">> \o FENCE]) \o doc.tail

\* the two functions on the text of each document, computed once
ProcessTable ==
    [doc \in Documents |->
        [plain |-> process_ai_response(RawText(doc)),
         enhanced |-> EnhancedProcess(RawText(doc))]]

ProcessAiResponse ==
    /\ Idle
    /\ \E doc \in Documents :
        Helped("process_ai_response", [doc |-> doc, raw_text |-> RawText(doc)],
               ProcessTable[doc].plain, <<>>)

EnhancedProcessAiResponse ==
    /\ Idle
    /\ \E doc \in Documents :
        Helped("enhanced_process_ai_response",
               [doc |-> doc, raw_text |-> RawText(doc)],
               ProcessTable[doc].enhanced, <<>>)

HelperNext ==
    \/ ExtractJsonFromText
    \/ RunChain
    \/ Search
    \/ CalculateUnderstandingUpdate
    \/ UpdateAgain
    \/ Embed
    \/ EmbedTexts
    \/ ProcessAiResponse
    \/ EnhancedProcessAiResponse
    \/ Return

\* the helpers read no configuration and no store: one initial state
HelperInit ==
    /\ Init
    /\ env = [api_key |-> TRUE, pinecone_pkg |-> TRUE, embeddings_ok |-> TRUE]

HelperSpec == HelperInit /\ [][HelperNext]_vars
-----------------------------------------------------------------------------
(* Properties of the memory store *)

Last(s) == s[Len(s)]

\* the index queries of the last operation: similarity searches, history
SearchQueries ==
    SelectSeq(calls, LAMBDA c : c.ev = "db.query" /\ "type" \notin DOMAIN c.flt)

HistoryQueries ==
    SelectSeq(calls, LAMBDA c : c.ev = "db.query" /\ "type" \in DOMAIN c.flt)

\* create_memory_context ran its searches: the store is available and there
\* is a query text
LadderRan ==
    /\ op = "create_memory_context"
    /\ svc.available
    /\ req.use_memory
    /\ req.query # None

StoreOps ==
    {"search_similar_chats", "get_user_chat_history", "store_chat_pair",
     "delete_user_chats"}

\* C6: while the store is unavailable, search and history return the empty
\* list, store_chat_pair returns None, delete_user_chats returns False, no
\* embedding or index call is made, nothing is stored and nothing is raised.
C6_UnavailableStoreIsInert ==
    (op \in StoreOps /\ ~svc.available) =>
        /\ calls = <<>>
        /\ fault = "none"
        /\ vectors = {}
        /\ op = "search_similar_chats" => ret = <<>>
        /\ op = "get_user_chat_history" => ret = <<>>
        /\ op = "store_chat_pair" => ret = NONE
        /\ op = "delete_user_chats" => ret = FALSE

\* a store on the disabled instance
C6_Witness ==
    /\ op = "store_chat_pair"
    /\ svc.created
    /\ ~svc.available
    /\ ret = NONE

\* C7: initialization goes UNCONFIGURED -> CONNECTING -> (CREATE_INDEX ->)
\* READY; a failure at any step ends in DISABLED; READY needs the key, the
\* client package, the embedding adapter and a successful index connection;
\* DISABLED is final: no later operation and no get_pinecone_service call
\* initializes again.
C7_InitStateMachine ==
    /\ [](/\ svc.stage = "UNCONFIGURED" <=> ~svc.created
          /\ svc.stage = "READY" <=> svc.available
          /\ svc.stage = "DISABLED" <=> (svc.created /\ ~svc.available)
          /\ svc.available =>
                 env.api_key /\ env.pinecone_pkg /\ env.embeddings_ok /\ svc.index)
    /\ []((op = "get_pinecone_service" /\ req.first) =>
            LET failed ==
                  \/ ~env.api_key \/ ~env.pinecone_pkg \/ ~env.embeddings_ok
                  \/ ~req.a.ctor
                  \/ ~req.a.index /\ (~req.a.create \/ ~req.a.index2)
            IN  /\ ret.path \in
                     { <<"UNCONFIGURED", "DISABLED">>,
                       <<"UNCONFIGURED", "CONNECTING", "DISABLED">>,
                       <<"UNCONFIGURED", "CONNECTING", "READY">>,
                       <<"UNCONFIGURED", "CONNECTING", "CREATE_INDEX", "READY">>,
                       <<"UNCONFIGURED", "CONNECTING", "CREATE_INDEX", "DISABLED">> }
                /\ Last(ret.path) = svc.stage
                /\ failed <=> svc.stage = "DISABLED"
                /\ "CREATE_INDEX" \in Range(ret.path) <=>
                       /\ env.api_key /\ env.pinecone_pkg /\ env.embeddings_ok
                       /\ req.a.ctor /\ ~req.a.index)
    /\ [][svc.stage = "DISABLED" => svc' = svc]_vars

\* get_pinecone_service was called again on a disabled instance and left it
\* disabled
C7_Witness ==
    /\ op = "get_pinecone_service"
    /\ ~req.first
    /\ svc.stage = "DISABLED"
    /\ ~ret.available
    /\ env.api_key /\ env.pinecone_pkg /\ env.embeddings_ok

-----------------------------------------------------------------------------
(* Properties of the generation entry points *)

ChatOps == {"handle_ai_chat", "handle_regular_chat", "handle_search_enhanced_chat"}

GenerationOps ==
    ChatOps \cup {"ask_about_task", "generate_flashcards", "generate_study_guide",
                  "get_ai_generated_materials"}

\* what run_chain returned to the entry point
ChainResult == calls[1].ret

\* C1 (as stated): a chat request with a message, handled by handle_ai_chat,
\* gets a success response whatever the model, the web search and the
\* extraction do; never an error status.
C1_ChatAlwaysSucceeds ==
    (op = "handle_ai_chat" /\ req.data.message # None) =>
        fault = "none" /\ ret.status = "success"

\* C2 (as stated): when run_chain returns nothing, or a mapping without a
\* flashcards array or with an empty one, generate_flashcards returns the
\* non-empty fallback set of the topic.
C2_FlashcardFallback ==
    (/\ op = "generate_flashcards"
     /\ \/ ChainResult = NONE
        \/ ~Has(ChainResult[1], "flashcards")
        \/ ChainResult[1].flashcards = <<>>)
    => /\ ret.flashcards # <<>>
       /\ ret.flashcards = create_fallback_flashcards(req.data.topic)

\* C3 (as stated): when run_chain returns nothing, or a mapping that lacks a
\* key of the study-guide shape, generate_study_guide returns the fallback
\* guide of the topic.
C3_StudyGuideFallback ==
    (/\ op = "generate_study_guide"
     /\ \/ ChainResult = NONE
        \/ ~({"learning_objectives", "key_concepts", "practice_exercises",
              "study_schedule", "resources"} \subseteq DOMAIN ChainResult[1]))
    => ret.study_guide = create_fallback_study_guide(req.data.topic)

\* C4 (as stated): the materials carry the four categories; a category the
\* model filled is returned unchanged; a category is empty in the result only
\* if the web search for it failed or found nothing.
C4_MaterialsBackfill ==
    op = "get_ai_generated_materials" =>
        \A i \in DOMAIN Categories :
            LET c == Categories[i]
            IN  /\ c \in DOMAIN ret
                /\ (ChainResult # NONE /\ Category(ChainResult[1], c) # <<>>)
                       => ret[c] = ChainResult[1][c]
                /\ ret[c] = <<>> => req.web[c] # "entries"

\* C9 (as stated): every chat request looks the memory up, with and without
\* web search, and the payload given to the model carries the memory context.
C9_MemoryLookupOnEveryChat ==
    (op \in ChatOps /\ fault = "none" /\ req.data.message # None) =>
        /\ \E i \in DOMAIN calls : calls[i].ev = "create_memory_context"
        /\ \A i \in DOMAIN calls :
               calls[i].ev = "chain.invoke" => "memory_context" \in calls[i].keys

\* C10 (as stated): no generation entry point lets a fault through, whatever
\* the request (a missing message or topic included) and the collaborators do.
C10_NoFaultEscapes ==
    op \in GenerationOps => fault = "none"


-----------------------------------------------------------------------------
(* Properties of the helpers *)

HasChar(text, c) == \E i \in DOMAIN text : text[i] = c

\* the extraction came to its last resort: the slice parses neither as it is
\* nor repaired
Salvaged(text) ==
    /\ ExtractTable[text] # NONE
    /\ json_loads(Strip(LocatedSlice(text))) = NONE
    /\ json_loads(Repaired(Strip(LocatedSlice(text)))) = NONE

\* the text under "answer" of a salvage mapping
PayloadOf(mapping) == mapping[3].v

\* the list fields of the JSON structure each prompt asks for
ListFields(prompt) ==
    CASE prompt = "chat_qa_prompt" ->
           {<<"b","u","l","l","e","t","s">>, <<"s","t","e","p","s">>, <<"b","o","l","d">>, <<"c","o","d","e","_","b","l","o","c","k","s">>}
      [] prompt = "task_qa_prompt" ->
           {<<"k","e","y","_","p","o","i","n","t","s">>, <<"s","t","e","p","s">>, <<"e","x","a","m","p","l","e","s">>, <<"c","o","d","e","_","b","l","o","c","k","s">>}
      [] prompt = "flashcards_prompt" -> {<<"f","l","a","s","h","c","a","r","d","s">>}
      [] prompt = "study_guide_prompt" ->
           {<<"l","e","a","r","n","i","n","g","_","o","b","j","e","c","t","i","v","e","s">>, <<"k","e","y","_","c","o","n","c","e","p","t","s">>, <<"p","r","a","c","t","i","c","e","_","e","x","e","r","c","i","s","e","s">>,
            <<"s","t","u","d","y","_","s","c","h","e","d","u","l","e">>, <<"r","e","s","o","u","r","c","e","s">>}
      [] prompt = "materials_prompt" ->
           {<<"v","i","d","e","o","s">>, <<"a","r","t","i","c","l","e","s">>, <<"p","r","a","c","t","i","c","e">>, <<"t","o","o","l","s">>}
      [] prompt = "search_enhanced_prompt" -> {<<"k","e","y","_","p","o","i","n","t","s">>, <<"r","e","s","o","u","r","c","e","s">>}

\* the mapping has an empty list under key f
HasEmptyList(mapping, f) ==
    \E i \in 1..(Len(mapping) - 2) :
        /\ mapping[i] = Tok("key", f)
        /\ mapping[i + 1] = Punct("[")
        /\ mapping[i + 2] = Punct("]")

\* C11 (as stated): when the search tool raises, search lets nothing out and
\* returns no result text.
C11_SearchFailureIsEmpty ==
    (op = "search" /\ req.results.kind = "raise") =>
        fault = "none" /\ ret = <<>>

C13_RoundTripAnyProse ==
    (op = "extract_json_from_text" /\ req.obj # <<>> /\ ~req.commas) =>
        ret = Some(req.obj)

\* C13 (amended): the same, for prose that holds no brace.
C13_RoundTrip ==
    (/\ op = "extract_json_from_text"
     /\ req.obj # <<>>
     /\ ~req.commas
     /\ ~HasChar(Wrap(req.wrap, <<>>), "{")
     /\ ~HasChar(Wrap(req.wrap, <<>>), "}"))
    => ret = Some(req.obj)

\* a nested object written over several lines, in a fence after prose, came
\* back as it was
C13_Witness ==
    /\ op = "extract_json_from_text"
    /\ req.wrap = "prose_fence"
    /\ req.pretty
    /\ ~req.commas
    /\ \E i \in DOMAIN req.obj : i > 1 /\ req.obj[i] = Punct("{")
    /\ ret = Some(req.obj)

\* C14 (as stated): when the located slice is a well-formed object but for
\* a comma before each "}" and "]", the result is that object, not the
\* salvage mapping.
C14_TrailingCommaRepair ==
    (/\ op = "extract_json_from_text"
     /\ req.obj # <<>>
     /\ req.commas
     /\ LocatedSlice(req.text) = json_dumps(req.obj, req.pretty, TRUE))
    => ret = Some(req.obj)

\* C15 (as stated): the text of the salvage mapping begins with the first
\* 500 characters of the located slice, no clean parse gives the same mapping, and through
\* run_chain it has an empty list for each list field the prompt asks for.
C15_SalvageOutcome ==
    /\ (op = "extract_json_from_text" /\ Salvaged(req.text)) =>
          /\ LET head == Prefix(LocatedSlice(req.text), SALVAGE_LIMIT)
             IN  Prefix(PayloadOf(ret[1]), Len(head)) = head
          /\ \A r \in ObjectTexts :
                 json_loads(r.text) # NONE => ExtractTable[r.text] # ret
    /\ (/\ op = "run_chain"
        /\ req.llm.kind = "text"
        /\ calls # <<>>
        /\ calls[1].llm
        /\ Salvaged(req.llm.text))
       => \A f \in ListFields(req.prompt) : HasEmptyList(ret[1], f)

\* C16: the data given to chain.invoke always has "language" and
\* "tasks_context"; what the caller gave under any key is still there;
\* a missing language is the one detected from the topic, a missing
\* tasks_context the default text.
C16_PayloadNormalized ==
    op = "run_chain" =>
        \A i \in DOMAIN calls :
            calls[i].ev = "chain.invoke" =>
            LET d     == calls[i].data
                given == IF req.data.kind \in {"dict", "pairs"} THEN req.data.d
                         ELSE <<>>
            IN  /\ {"language", "tasks_context"} \subseteq DOMAIN d
                /\ \A k \in DOMAIN given : d[k] = given[k]
                /\ ~Has(given, "language") =>
                       d.language = detect_language_from_topic(TopicOf(given))
                /\ ~Has(given, "tasks_context") =>
                       d.tasks_context = DEFAULT_TASKS_CONTEXT

\* the caller's language went to the model unchanged, next to the default
\* tasks_context
C16_Witness ==
    /\ op = "run_chain"
    /\ req.data.kind = "dict"
    /\ Has(req.data.d, "language")
    /\ ~Has(req.data.d, "tasks_context")
    /\ calls # <<>>
    /\ calls[1].llm
    /\ calls[1].data.language = "go"
    /\ calls[1].data.tasks_context = DEFAULT_TASKS_CONTEXT

\* C17 (as stated): every run_chain call calls the model exactly once.
C17_ExactlyOneInvocation ==
    op = "run_chain" =>
        Cardinality({i \in DOMAIN calls :
                        calls[i].ev = "chain.invoke" /\ calls[i].llm}) = 1

-----------------------------------------------------------------------------
(* Properties of the search path and of the similarity search *)

\* C18 (as stated): a chat message that triggers the web search is searched
\* for: the search is called once, with a query ending in "current trends
\* developments" (and the year) if the message speaks of trends or current
\* events, else in "tools libraries frameworks" if it speaks of tools,
\* libraries or frameworks, else in "tutorial guide examples"; so is the
\* message "what are the latest javascript frameworks 2024".
C18_SearchQuerySelection ==
    (/\ op = "handle_ai_chat"
     /\ req.data.message # None
     /\ should_use_search(req.data.message))
    => LET m      == Lower(req.data.message)
           trend  == Contains(m, KW_trend) \/ Contains(m, KW_current)
           tools  == AnyIn({<<"t","o","o","l","s">>, <<"l","i","b","r","a","r","i","e","s">>, <<"f","r","a","m","e","w","o","r","k","s">>}, m)
           suffix == IF trend THEN " current trends developments 2024"
                     ELSE IF tools THEN " tools libraries frameworks 2024"
                     ELSE " tutorial guide examples 2024"
       IN  \E i \in DOMAIN calls :
               /\ calls[i].ev = "search.run"
               /\ Last(calls[i].query) = suffix

\* C19 (as stated): the first similarity query of create_memory_context has
\* threshold 0.4 and no topic filter for a personal query; 0.3, limit 3 and
\* no topic filter for a short one; 0.8 and the topic filter for a code
\* query; 0.7 and the topic filter for a concept query and for any other
\* (the last two for a request that names a topic).
C19_ClassifiedSearchParameters ==
    LadderRan =>
    LET c        == ClassTable[req.query]
        q        == SearchQueries[1]
        filtered == "topic" \in DOMAIN q.flt
        short    == c.is_short \/ c.is_very_short
    IN  /\ c.is_personal => q.threshold = 40 /\ ~filtered
        /\ (~c.is_personal /\ short) =>
               q.threshold = 30 /\ q.top_k = 3 /\ ~filtered
        /\ (~c.is_personal /\ ~short /\ c.is_code /\ ~Falsy(req.topic)) =>
               q.threshold = 80 /\ filtered
        /\ (~c.is_personal /\ ~short /\ ~c.is_code /\ ~Falsy(req.topic)) =>
               q.threshold = 70 /\ filtered

\* C20: search_similar_chats returns only turns of the user's namespace, of
\* the topic when one is given, with a score of at least the threshold, at
\* most `limit` of them, the best first.
C20_SearchIsScoped ==
    op = "search_similar_chats" =>
        /\ Len(ret) <= req.limit
        /\ \A i \in DOMAIN ret :
               /\ ret[i].score >= req.threshold
               /\ \E v \in vectors :
                      /\ v.id = ret[i].id
                      /\ v.ns = req.user_id
                      /\ ~Falsy(req.topic) => v.md.topic = req.topic
        /\ \A i, j \in DOMAIN ret : i < j => ret[i].score >= ret[j].score

\* a search with a topic returned one turn and left out a turn that the
\* same user stored under another topic
C20_Witness ==
    /\ op = "search_similar_chats"
    /\ ~Falsy(req.topic)
    /\ Len(ret) = 1
    /\ \E v \in vectors : v.ns = req.user_id /\ v.md.topic # req.topic

-----------------------------------------------------------------------------
(* Properties of the stored vectors and of delete_user_chats *)

\* C21: every vector store_chat_pair upserts and every query vector sent to
\* the index has 384 components, whatever the embedding endpoint answered:
\* a short or long vector is padded or cut and then sent, so that with the
\* store available a store upserts and a search queries; an id is returned
\* only for a vector that was upserted with 384 components.
C21_VectorsHaveDimensionD ==
    /\ \A v \in vectors : v.dim = 384
    /\ \A i \in DOMAIN calls :
           calls[i].ev \in {"db.upsert", "db.query"} => calls[i].dim = 384
    /\ (op = "store_chat_pair" /\ svc.available /\ req.topic # None) =>
           \E i \in DOMAIN calls : calls[i].ev = "db.upsert"
    /\ (op = "search_similar_chats" /\ svc.available) =>
           \E i \in DOMAIN calls : calls[i].ev = "db.query"
    /\ (op = "store_chat_pair" /\ ret # NONE) =>
           \E i \in DOMAIN calls :
               calls[i].ev = "db.upsert" /\ calls[i].id = ret[1] /\ calls[i].ok

\* the endpoint answered with 385 numbers and the turn was stored with 384
C21_Witness ==
    /\ op = "store_chat_pair"
    /\ req.e.kind = "vec"
    /\ req.e.len = 385
    /\ ret # NONE
    /\ \E v \in vectors : v.id = ret[1] /\ v.dim = 384

\* C22 (as stated): a delete_user_chats that the index answers removes, for
\* any id list that is given, exactly the listed ids from the user's
\* namespace and nothing else, and the whole namespace only when no list is
\* given; it returns True, also for ids that are not there.
C22_DeleteExactlyListed ==
    [][(op' = "delete_user_chats" /\ svc.available /\ calls'[1].ok) =>
          /\ ret' = TRUE
          /\ req'.vector_ids # NONE =>
                 vectors' = {v \in vectors :
                                ~(v.ns = req'.user_id /\ v.id \in req'.vector_ids[1])}
          /\ req'.vector_ids = NONE =>
                 vectors' = {v \in vectors : v.ns # req'.user_id}]_vars

-----------------------------------------------------------------------------
(* Properties of store_chat_pair calls that run at the same time *)

\* the threads whose call has returned an id
Stored == {t \in Threads : threads[t].pc = "done" /\ threads[t].ret # NONE}

\* C23 (as stated): store_chat_pair calls of one user that run at the same
\* time each upsert under an id of their own, and when all have returned,
\* every call that returned an id has its turn in the user's namespace: as
\* many vectors as such calls, each under its id with its message.
C23_ConcurrentStoresIndependent ==
    /\ \A t, u \in Threads :
           (t # u /\ threads[t].id # <<>> /\ threads[u].id # <<>>) =>
               threads[t].id # threads[u].id
    /\ (\A t \in Threads : threads[t].pc = "done") =>
           /\ \A t \in Stored :
                  \E v \in vectors : /\ v.ns = StoreUser
                                     /\ v.id = threads[t].ret[1]
                                     /\ v.md.user_message = threads[t].msg
           /\ Cardinality({v \in vectors : v.ns = StoreUser}) = Cardinality(Stored)

-----------------------------------------------------------------------------
(* Properties of calculate_understanding_update *)

\* a key that is a string without capital letters
LowercaseString(k) == k # None /\ \A i \in DOMAIN k : k[i] \notin UPPER

\* C24: calculate_understanding_update, given a map with levels in 0..100,
\* returns a map in which every level is in 0..100, every key is a lowercase
\* concept string and the topic is a key; repeated updates stay in 0..100.
C24_UnderstandingMapInvariant ==
    op = "calculate_understanding_update" =>
        /\ \A k \in DOMAIN ret : ret[k] \in 0..100
        /\ \A k \in DOMAIN ret : LowercaseString(k)
        /\ req.topic \in DOMAIN ret

\* C25: every extracted concept gets min(current.get(concept, 0) +
\* min(complexity*2, 10), 100) with complexity in 0..5, and a topic that had
\* no entry in the input map has a level of at least 10 afterwards.
C25_UnderstandingUpdateRule ==
    op = "calculate_understanding_update" =>
        LET complexity == calls[1].ret
            concepts   == calls[2].ret
            current    == req.current_understanding
            gain       == IF complexity * 2 < 10 THEN complexity * 2 ELSE 10
            BrandNew(t) == t \notin DOMAIN current /\ Lower(Str(t)) \notin DOMAIN current
        IN  /\ complexity \in 0..5
            /\ \A c \in concepts :
                  ret[c] = (IF Get(current, c, 0) + gain < 100
                            THEN Get(current, c, 0) + gain ELSE 100)
            /\ BrandNew(req.topic) =>
                  \A k \in DOMAIN ret : Lower(Str(k)) = Lower(Str(req.topic)) => ret[k] >= 10

-----------------------------------------------------------------------------
(* Properties of HFLocalEmbeddings *)

\* the endpoint did not answer with status 200 and a body that parses
EmbedFailed(answer) ==
    \/ answer.kind # "response"
    \/ answer.status # 200
    \/ answer.body = "malformed"

\* a body embed finds no embedding in: not a list and not a dict, an empty
\* list, a list that begins with neither a list nor a number, or a dict
\* without a value under any of the four keys
Unrecognised(data) ==
    \/ data.t \notin {"list", "dict"}
    \/ data.t = "list" /\ (data.items = <<>>
                            \/ data.items[1].t \notin {"list", "int", "float", "bool"})
    \/ data.t = "dict" /\ \A i \in DOMAIN data.pairs :
          data.pairs[i][1] \notin {"embeddings", "embedding", "vectors", "vector"}

\* C26: embed lets no exception out; for an empty or non-string text it
\* returns [] and sends no request; when the request times out or fails,
\* the status is not 200, or the body does not parse or holds no embedding,
\* it returns []; a result that is not empty is a flat list of floats.
C26_EmbedNeverRaises ==
    op = "embed" =>
        /\ fault = "none"
        /\ (req.text.t # "str" \/ req.text.s = <<>>) => (ret = <<>> /\ calls = <<>>)
        /\ (req.text.t = "str" /\ req.text.s # <<>>) =>
              /\ Len(calls) = 1
              /\ EmbedFailed(req.answer) => ret = <<>>
              /\ (~EmbedFailed(req.answer) /\ Unrecognised(req.answer.data)) => ret = <<>>
        /\ \A i \in DOMAIN ret : ret[i].t = "float"

\* a value that float() rejects inside the vector: the TypeError is caught
C26_Witness ==
    /\ op = "embed"
    /\ req.text = JStr(<<"h","e","l","l","o">>)
    /\ ~EmbedFailed(req.answer)
    /\ req.answer.data = JList(<<JList(<<JFloat(1), JNull>>)>>)
    /\ ret = <<>>
    /\ fault = "none"
    /\ Len(calls) = 1

\* C27: what embed_texts returns is the empty list, or one vector per input
\* text with the i-th vector the embedding of the i-th text, also when the
\* list holds an empty or non-string item; a failed batch gives the empty
\* list.
C27_EmbedTextsKeepsOrder ==
    op = "embed_texts" =>
        /\ fault = "none"
        /\ req.kind \in {"bad_value", "no_list", "status_500", "malformed",
                          "Timeout", "ConnectionError"} => ret = <<>>
        /\ \/ ret = <<>>
           \/ /\ Len(ret) = Len(req.texts)
              /\ \A i \in DOMAIN ret :
                    /\ req.texts[i].t = "str"
                    /\ ret[i] = Embedding(req.texts[i].s)

-----------------------------------------------------------------------------
(* Properties of the repairs, the code blocks and the prompt payloads *)

\* the first parse that succeeds when json_str is parsed again after each
\* repair: trailing commas, then apostrophes, then newlines
StagedRepairs(json_str) ==
    LET a == RemoveTrailingCommas(RemoveTrailingCommas(json_str, "}"), "]")
        b == EscapeApostrophes(a)
        c == EscapeNewlines(b)
    IN  IF json_loads(a) # NONE THEN json_loads(a)
        ELSE IF json_loads(b) # NONE THEN json_loads(b)
        ELSE json_loads(c)

\* C28: when the located slice does not parse as it is,
\* extract_json_from_text removes trailing commas, then escapes apostrophes,
\* then escapes newlines, parses after each repair and returns the first
\* parse that succeeds (a later repair runs only if the parse before it
\* failed); the salvage mapping is returned only when all three fail.
C28_RepairsInOrder ==
    (op = "extract_json_from_text" /\ ret # NONE) =>
        LET json_str == Strip(LocatedSlice(req.text))
            staged   == StagedRepairs(json_str)
        IN  json_loads(json_str) = NONE =>
                ret = (IF staged # NONE THEN staged
                       ELSE Some(LastResort(LocatedSlice(req.text))))

\* the text the document's blocks leave when each is put back, fenced,
\* where it stood, between two blank lines
Reconstructed(doc) ==
    Strip(Flatten([k \in DOMAIN doc.blocks |->
                doc.blocks[k].prose \o <<"\n", "\n">> \o FENCE
                    \o (IF doc.blocks[k].language = <<>> THEN <<"t","e","x","t">>
                        ELSE doc.blocks[k].language)
                    \o <<"\n">> \o doc.blocks[k].code \o <<"\n">> \o FENCE
                    \o <<"\n", "\n">>]) \o doc.tail)

\* C29: for a text with N fenced code blocks, process_ai_response and
\* enhanced_process_ai_response list the N blocks in the order met, each
\* with its language and code, and return the text with every block fenced
\* again at its own place; no placeholder is left in the text, for every N.
C29_CodeBlocksReinserted ==
    op \in {"process_ai_response", "enhanced_process_ai_response"} =>
        /\ Len(ret.code_blocks) = Len(req.doc.blocks)
        /\ \A k \in DOMAIN ret.code_blocks :
              /\ ret.code_blocks[k].code = req.doc.blocks[k].code
              /\ ret.code_blocks[k].language =
                    (IF req.doc.blocks[k].language = <<>> THEN <<"t","e","x","t">>
                     ELSE req.doc.blocks[k].language)
        /\ ~Contains(ret.text, <<"C","O","D","E","_","B","L","O","C","K","_">>)
        /\ req.doc.blocks # <<>> => ret.text = Reconstructed(req.doc)

\* C30: wherever an entry point calls run_chain, the payload, with the
\* language and tasks_context run_chain adds, has a value for every
\* placeholder of the prompt it is run with, so that the model is called.
C30_PlaceholdersSupplied ==
    op \in GenerationOps =>
        \A i \in DOMAIN calls :
            calls[i].ev = "chain.invoke" =>
                /\ InputVariables(calls[i].prompt) \subseteq calls[i].keys
                /\ calls[i].llm
=============================================================================
